-------------------------- MODULE SettingsChanges --------------------------
(***************************************************************************)
(* Runtime settings: single updates and profiles, with the version that    *)
(* the admin saw, the checks across settings, the history and the audit    *)
(* log; beside everything else that locks the rows of administrators.      *)
(***************************************************************************)
EXTENDS Authorization

CONSTANTS
    Lower, Upper,  \* two settings that must stay in order, such as
                   \* storage.warning_percent and storage.stop_percent
    Values,        \* [Settings -> sets of values]: what admins ask for, of
                   \* what the parser accepts
    Supers,        \* the super administrators at the start
    First,         \* [Settings -> values]: values of the catalog
    Profile,       \* [subset of Settings -> values]
    ProfileKeys,   \* the keys of Profile, sorted
    MaxVersion     \* bound: [Settings -> Nat], version of a setting

ASSUME SettingsAssumption ==
    /\ Lower \in Settings /\ Upper \in Settings
    /\ Values \in [Settings -> SUBSET Nat]
    /\ Supers \subseteq Admins
    /\ First \in [Settings -> Nat] /\ First[Lower] < First[Upper]
    /\ ProfileKeys \in Seq(Settings)
    /\ \A i, j \in DOMAIN ProfileKeys : ProfileKeys[i] = ProfileKeys[j] => i = j
    /\ DOMAIN Profile = {ProfileKeys[i] : i \in DOMAIN ProfileKeys}
    /\ \A k \in DOMAIN Profile : Profile[k] \in Values[k]
    /\ MaxVersion \in [Settings -> Nat \ {0}]

VARIABLES
    value,    \* [Settings -> values]
    version,  \* [Settings -> Nat]
    history,  \* [Settings -> Seq([old, new, seen])]: settings_history, and
              \* the value that the admin had seen
    audit     \* [Admins -> Nat]: rows of the audit log

settingVars == <<value, version, history, audit>>
vars == <<admin, holder, txn, settingVars>>

(* seed_catalogs and ensure_super_admin have run.                           *)
Init ==
    /\ admin = [a \in Admins |-> [super |-> a \in Supers, status |-> "active",
                                  ends |-> "never", uses |-> 0]]
    /\ holder = [x \in Rows |-> None]
    /\ txn = [r \in Requests |-> NoTxn]
    /\ value = First
    /\ version = [k \in Settings |-> 1]
    /\ history = [k \in Settings |-> << >>]
    /\ audit = [a \in Admins |-> 0]

InOrder(values) == values[Lower] < values[Upper]

----------------------------------------------------------------------------
(* update and apply_profile.                                                *)

(* Wrong: the setting's row is read without a lock.                         *)
UpdatePlanAdminOnly(k, a) == <<a>>

(* Wrong: the admin's row is read without a lock.                           *)
UpdatePlanSettingOnly(k, a) == <<k>>

UpdatePlan(k, a) == <<k, a>>

Seen(keys) == [k \in keys |-> [version |-> version[k], value |-> value[k]]]

BeginUpdate(r, a, k) ==
    /\ version[k] < MaxVersion[k]
    /\ \E v \in Values[k] :
        Begin(r, "update", UpdatePlan(k, a), a, [x \in {k} |-> v], Seen({k}), None)

BeginProfile(r, a) ==
    /\ \A k \in DOMAIN Profile : version[k] < MaxVersion[k]
    /\ Begin(r, "profile", <<a>> \o ProfileKeys, a, Profile, Seen(DOMAIN Profile), None)

Proposed(change) == [k \in Settings |-> IF k \in DOMAIN change THEN change[k] ELSE value[k]]

(* Wrong: the settings as they are are not checked.                         *)
ProposalFits(change) == InOrder(Proposed(change))

(* get_snapshot refuses settings that are out of order, and then the        *)
(* proposal is checked.                                                     *)
Fits(change) == InOrder(value) /\ InOrder(Proposed(change))

(* Wrong: an update that comes late is made over the newer value.           *)
NotOlder(change, seen) == \A k \in DOMAIN change : version[k] >= seen[k].version

Unchanged(change, seen) == \A k \in DOMAIN change : version[k] = seen[k].version

DecideChange(r) ==
    /\ txn[r].kind \in {"update", "profile"}
    /\ LET a == txn[r].admin
       IN  Decides(r, /\ Unchanged(txn[r].change, txn[r].seen)
                      /\ MayChange(a)
                      /\ Fits(txn[r].change),
                   [admin[a] EXCEPT !.uses = @ + 1])
    /\ UNCHANGED <<admin, settingVars>>

CommitChange(r) ==
    /\ txn[r].kind \in {"update", "profile"} /\ txn[r].stage = "ready"
    /\ LET change == txn[r].change
           seen == txn[r].seen
           a == txn[r].admin
       IN  /\ value' = Proposed(change)
           /\ version' = [k \in Settings |-> IF k \in DOMAIN change
                                             THEN seen[k].version + 1 ELSE version[k]]
           /\ history' = [k \in Settings |->
                  IF k \in DOMAIN change
                  THEN Append(history[k], [old |-> value[k], new |-> change[k],
                                           seen |-> seen[k].value])
                  ELSE history[k]]
           /\ audit' = [audit EXCEPT ![a] = @ + 1]
           /\ admin' = [admin EXCEPT ![a].uses = txn[r].row.uses]
    /\ Ends(r)

----------------------------------------------------------------------------
Proceed(r) ==
    \/ Take(r) /\ UNCHANGED settingVars
    \/ DecidePanel(r) /\ UNCHANGED settingVars
    \/ CommitPanel(r) /\ UNCHANGED settingVars
    \/ DecideUpdateAdmin(r) /\ UNCHANGED settingVars
    \/ CommitUpdateAdmin(r) /\ UNCHANGED settingVars
    \/ DecideChange(r)
    \/ CommitChange(r)

Next ==
    \/ \E r \in Requests, a \in Admins : BeginPanel(r, a) /\ UNCHANGED settingVars
    \/ \E r \in Requests, a \in Admins : BeginUpdateAdmin(r, a) /\ UNCHANGED settingVars
    \/ \E r \in Requests, a \in Admins : BeginBootstrap(r, a) /\ UNCHANGED settingVars
    \/ \E r \in Requests, a \in Admins, k \in Settings :
          BeginUpdate(r, a, k) /\ UNCHANGED settingVars
    \/ \E r \in Requests, a \in Admins : BeginProfile(r, a) /\ UNCHANGED settingVars
    \/ \E r \in Requests : Proceed(r)
    \/ \E r \in Requests : DeadlockEnds(r) /\ UNCHANGED settingVars
    \/ \E r \in Requests : Fail(r) /\ UNCHANGED settingVars
    \/ \E a \in Admins : AdminEnds(a) /\ UNCHANGED settingVars

Spec == Init /\ [][Next]_vars

----------------------------------------------------------------------------
TypeOK ==
    /\ admin \in [Admins -> Admin]
    /\ holder \in [Rows -> Requests \union {None}]
    /\ DOMAIN value = Settings /\ \A k \in Settings : value[k] \in Values[k] \union {First[k]}
    /\ DOMAIN version = Settings /\ \A k \in Settings : version[k] \in 1 .. MaxVersion[k]
    /\ audit \in [Admins -> Nat]
    /\ \A r \in Requests :
          /\ txn[r].kind \in {"none", "panel", "admin", "update", "profile"}
          /\ txn[r].stage \in {"none", "locking", "ready"}
          /\ txn[r] = NoTxn => \A x \in Rows : holder[x] # r

(* No update is lost: the history of a setting is a chain from the value of *)
(* the catalog to the value in force, one entry for each version, and every *)
(* entry replaced exactly the value its admin had seen.                     *)
HistoryChains ==
    \A k \in Settings :
        LET before(i) == IF i = 1 THEN First[k] ELSE history[k][i - 1].new
        IN  /\ version[k] = Len(history[k]) + 1
            /\ value[k] = before(version[k])
            /\ \A i \in DOMAIN history[k] :
                  history[k][i].old = before(i) /\ history[k][i].seen = before(i)

(* Every accepted change is in the audit log and took one of its admin's    *)
(* permission uses, of which there are never more than allowed: concurrent  *)
(* changes of one admin do not share a use.                                 *)
UsesCounted == \A a \in Admins : admin[a].uses = audit[a] /\ audit[a] <= MaxUses[a]

(* The last active super administrator is lost to time only: one is left    *)
(* who only came to an end.  No two transactions that each count on the     *)
(* other one remove both.                                                   *)
SuperAdminRemains ==
    [][ActiveSupers # {} /\ ActiveSupers' = {}
         => \E a \in Admins : admin'[a].super /\ admin'[a].status = "active"
                                /\ admin'[a].ends = "passed"]_vars

(* Once the settings are out of order and no change is on its way, that is  *)
(* final: every update and every profile first takes a snapshot, which      *)
(* refuses such settings, so not even the repair gets through.              *)
Stuck ==
    /\ ~ InOrder(value)
    /\ \A r \in Requests : txn[r].kind \in {"update", "profile"} => txn[r].stage # "ready"

OutOfOrderIsFinal == [][Stuck => Stuck' /\ value' = value]_vars

(* Only an update and a profile ever deadlock, as an update locks the       *)
(* setting before the admin and a profile the admin before the settings:    *)
(* transactions of all other kinds meet their rows in one order, and so do  *)
(* several updates, or several profiles, whatever rows they take.           *)
DeadlocksMixChanges ==
    \A circle \in SUBSET Requests :
        circle # {} /\ {Blocker(q) : q \in circle} = circle
        => {"update", "profile"} \subseteq {txn[q].kind : q \in circle}

(* Transactions that lock row by row, wait, fail and meet each other in any *)
(* order have the effects of changes made one at a time.                    *)
Contract ==
    INSTANCE SettingsContract WITH
        Trusted <- Granted \union RoleAllows, Barred <- Denied \union ReadOnly

KeepsSettingsContract == Contract!ContractSpec

===========================================================================
