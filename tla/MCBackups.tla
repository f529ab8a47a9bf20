------------------------------ MODULE MCBackups ------------------------------
(* Backups around the days the calendar makes difficult: the end of a year,
   the last days of months of 28, 29, 30 and 31 days, a leap day, and two
   times of one day. *)
EXTENDS Backups, TLC

CONSTANTS full, map   \* names of profiles

At(y, m, d, h) == [y |-> y, m |-> m, d |-> d, h |-> h]

MCTimes ==
  << At(2023, 2, 28, 12), At(2023, 12, 31, 12), At(2024, 1, 31, 12), At(2024, 2, 29, 9), At(2024, 2, 29, 12),
     At(2024, 3, 31, 12) >>

For(amount, unit) == [amount |-> amount, unit |-> unit]
Entry(p, amount, unit) == [profile |-> p, amount |-> amount, unit |-> unit]

\* The modules' default (one profile, no lifetime), lifetimes of a year and
\* of months or weeks, one inherited, a profile removed again, and a
\* lifetime longer than there are years.
MCConfigs ==
  { [profiles |-> full :> [base |-> NoBase, lifetime |-> NoLifetime],
     schedule |-> <<Entry(full, 0, "day")>>],
    [profiles |-> full :> [base |-> NoBase, lifetime |-> For(1, "year")]
               @@ map :> [base |-> full, lifetime |-> For(2, "month")],
     schedule |-> <<Entry(full, 1, "month"), Entry(map, 0, "day")>>],
    [profiles |-> full :> [base |-> NoBase, lifetime |-> For(1, "month")]
               @@ map :> [base |-> full, lifetime |-> NoLifetime],
     schedule |-> <<Entry(full, 1, "year"), Entry(map, 4, "week")>>],
    [profiles |-> full :> [base |-> NoBase, lifetime |-> For(3000, "year")],
     schedule |-> <<Entry(full, 0, "day")>>] }

Symmetry == Permutations(Commands)
=============================================================================
