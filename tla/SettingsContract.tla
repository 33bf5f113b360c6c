-------------------------- MODULE SettingsContract --------------------------
(***************************************************************************)
(* What the administration promises, without locks, transactions under     *)
(* way and versions: changes of settings and of administrators happen one  *)
(* at a time, by somebody who may make them at that moment, and replace    *)
(* what that administrator has seen.  Only time may take the last super    *)
(* administrator away.                                                     *)
(***************************************************************************)
EXTENDS Naturals, Sequences

CONSTANTS
    Admins, Settings,
    Trusted,   \* admins with the permission, by an explicit allow or their role
    Barred,    \* admins without it, by an explicit deny or a scope
    MaxUses,   \* [Admins -> Nat]
    Supers,    \* the super administrators at the start
    First,     \* [Settings -> values]
    Values     \* [Settings -> sets of values]

VARIABLES
    admin,     \* [Admins -> [super, status, ends, uses]]
    value,     \* [Settings -> values]
    history    \* [Settings -> Seq([old, new, seen])]

contract == <<admin, value, history>>

ContractInit ==
    /\ admin = [a \in Admins |-> [super |-> a \in Supers, status |-> "active",
                                  ends |-> "never", uses |-> 0]]
    /\ value = First
    /\ history = [k \in Settings |-> << >>]

(* The end of an administrator may come while a change is under way.        *)
May(a) ==
    /\ admin[a].status = "active" /\ admin[a].uses < MaxUses[a]
    /\ a \notin Barred
    /\ a \in Trusted \/ admin[a].super

Replace(k) ==
    /\ value'[k] \in Values[k]
    /\ history'[k] = Append(history[k], [old |-> value[k], new |-> value'[k], seen |-> value[k]])

(* Some settings are replaced at once, which takes one use.                 *)
Change(a) ==
    /\ May(a)
    /\ \A k \in Settings : Replace(k) \/ (value'[k] = value[k] /\ history'[k] = history[k])
    /\ admin' = [admin EXCEPT ![a].uses = @ + 1]

IsSuper(a) == admin[a].super /\ admin[a].status = "active"
Loses(b) ==
    /\ IsSuper(b) /\ admin[b].ends # "passed"
    /\ ~ (IsSuper(b)' /\ admin'[b].ends # "passed")

(* Another row for an administrator; the uses stay.                         *)
Appoint(b) ==
    /\ \A a \in Admins \ {b} : admin'[a] = admin[a]
    /\ admin'[b].uses = admin[b].uses
    /\ Loses(b) => \E a \in Admins \ {b} : IsSuper(a)
    /\ UNCHANGED <<value, history>>

TimeIsUp(b) ==
    /\ admin[b].ends = "later"
    /\ admin' = [admin EXCEPT ![b].ends = "passed"]
    /\ UNCHANGED <<value, history>>

ContractNext == \E a \in Admins : Change(a) \/ Appoint(a) \/ TimeIsUp(a)

ContractSpec == ContractInit /\ [][ContractNext]_contract
=============================================================================
