--------------------------- MODULE Authorization ---------------------------
(***************************************************************************)
(* Administrators: what the evaluator reads of them, the trigger that      *)
(* keeps the last super administrator, the bootstrap that makes the first, *)
(* and the row locks that all transactions of administrators take.         *)
(*                                                                         *)
(* A transaction takes the locks of its plan one by one and waits for each *)
(* until it is free; then it decides on the committed state, and commits   *)
(* later.  It may fail at any time.  PostgreSQL ends one transaction of a  *)
(* circle of waiting ones.                                                 *)
(***************************************************************************)
EXTENDS Naturals, Sequences, FiniteSets

CONSTANTS
    Admins,
    Settings,    \* keys of the settings table
    Requests,    \* transactions under way at once
    Advisory,    \* the advisory lock mdlbot:last_super_admin
    None,
    Granted,     \* admins with an explicit allow for the permission
    Denied,      \* admins with an explicit deny
    RoleAllows,  \* admins whose base role has it
    ReadOnly,    \* admins with a read_only scope
    MaxUses,     \* [Admins -> Nat]: max_permission_uses
    Updates      \* what an admin's row may become: see NewRow

Rows == Settings \union Admins \union {Advisory}

ASSUME AuthorizationAssumption ==
    /\ IsFiniteSet(Requests)
    /\ Admins \intersect Settings = {} /\ Advisory \notin Admins \union Settings
    /\ None \notin Requests \union Rows
    /\ Updates \subseteq {"suspended", "demoted", "later", "passed"}
    /\ MaxUses \in [Admins -> Nat]

VARIABLES
    admin,    \* [Admins -> Admin]
    holder,   \* [Rows -> Requests \union {None}]: who locks the row
    txn       \* [Requests -> Txn]

(* ends_at: not set, still to come, or passed.                              *)
Admin == [super : BOOLEAN, status : {"active", "suspended"},
          ends : {"never", "later", "passed"}, uses : Nat]

NoTxn == [kind |-> "none", stage |-> "none", plan |-> << >>, admin |-> None,
          change |-> << >>, seen |-> << >>, row |-> None]

ActiveSupers ==
    {a \in Admins : admin[a].super /\ admin[a].status = "active" /\ admin[a].ends # "passed"}

----------------------------------------------------------------------------
(* The life of a transaction.                                               *)

Begin(r, kind, plan, a, change, seen, row) ==
    /\ txn[r] = NoTxn
    /\ txn' = [txn EXCEPT ![r] = [kind |-> kind, stage |-> "locking", plan |-> plan,
                                  admin |-> a, change |-> change, seen |-> seen, row |-> row]]
    /\ UNCHANGED <<admin, holder>>

Take(r) ==
    /\ txn[r].plan # << >>
    /\ holder[Head(txn[r].plan)] = None
    /\ holder' = [holder EXCEPT ![Head(txn[r].plan)] = r]
    /\ txn' = [txn EXCEPT ![r].plan = Tail(@)]
    /\ UNCHANGED admin

(* Wrong: the advisory lock is one of the session, not of the transaction.  *)
UnlockedRowsOnly(r) ==
    [x \in Rows |-> IF holder[x] = r /\ x # Advisory THEN None ELSE holder[x]]

Unlocked(r) == [x \in Rows |-> IF holder[x] = r THEN None ELSE holder[x]]

Ends(r) ==
    /\ txn' = [txn EXCEPT ![r] = NoTxn]
    /\ holder' = Unlocked(r)

(* After its last lock a transaction goes on, with the row it will write    *)
(* for the admin, or is refused.                                            *)
Decides(r, accepted, row) ==
    /\ txn[r].stage = "locking" /\ txn[r].plan = << >>
    /\ IF accepted
       THEN txn' = [txn EXCEPT ![r].stage = "ready", ![r].row = row] /\ UNCHANGED holder
       ELSE Ends(r)

(* An exception, the end of the process, or a check that failed before all  *)
(* the locks were taken.                                                    *)
Fail(r) ==
    /\ txn[r] # NoTxn
    /\ Ends(r)
    /\ UNCHANGED admin

Blocker(r) == IF txn[r].plan = << >> THEN None ELSE holder[Head(txn[r].plan)]

(* The transactions of a circle wait for each other and for nobody else.    *)
Deadlocked(r) ==
    \E circle \in SUBSET Requests :
        /\ r \in circle
        /\ {Blocker(q) : q \in circle} = circle

DeadlockEnds(r) ==
    /\ Deadlocked(r)
    /\ Ends(r)
    /\ UNCHANGED admin

----------------------------------------------------------------------------
(* evaluate: the row of the admin is read under its lock.                   *)

Permitted(a) ==
    /\ admin[a].status = "active" /\ admin[a].ends # "passed"
    /\ admin[a].uses < MaxUses[a]
    /\ a \notin Denied
    /\ a \in Granted \/ admin[a].super \/ a \in RoleAllows

(* Scopes restrict what is changed, not what is seen.                       *)
MayChange(a) == Permitted(a) /\ a \notin ReadOnly

(* The panel in Telegram asks for a permission and consumes nothing; the    *)
(* row stays locked until the update has been answered.                     *)
BeginPanel(r, a) == Begin(r, "panel", <<a>>, a, << >>, << >>, None)

DecidePanel(r) ==
    /\ txn[r].kind = "panel"
    /\ Decides(r, Permitted(txn[r].admin), None)
    /\ UNCHANGED admin

CommitPanel(r) ==
    /\ txn[r].kind = "panel" /\ txn[r].stage = "ready"
    /\ Ends(r)
    /\ UNCHANGED admin

----------------------------------------------------------------------------
(* A transaction that updates status, role or ends_at of an admin: the      *)
(* trigger takes the advisory lock and counts the others.                   *)

(* Wrong: the others are counted without the advisory lock.                 *)
RowPlan(b) == <<b>>

(* Wrong: the others are locked row by row instead.                         *)
OthersPlan(b) == <<b, CHOOSE a \in Admins : a # b>>

TriggerPlan(b) == <<b, Advisory>>

(* ensure_super_admin: the row the bootstrap leaves.                        *)
Initial(b) == [admin[b] EXCEPT !.super = TRUE, !.status = "active", !.ends = "never"]

(* Suspended, given another role, or given an end.                          *)
NewRow(b, update) ==
    CASE update = "suspended" -> [Initial(b) EXCEPT !.status = "suspended"]
      [] update = "demoted"   -> [Initial(b) EXCEPT !.super = FALSE]
      [] OTHER                -> [Initial(b) EXCEPT !.ends = update]

BeginUpdateAdmin(r, b) ==
    \E update \in Updates :
        /\ NewRow(b, update) # admin[b]
        /\ Begin(r, "admin", TriggerPlan(b), b, << >>, << >>, NewRow(b, update))

BeginBootstrap(r, b) ==
    Initial(b) # admin[b] /\ Begin(r, "admin", TriggerPlan(b), b, << >>, << >>, Initial(b))

Removes(b, row) ==
    b \in ActiveSupers /\ (row.status # "active" \/ ~ row.super \/ row.ends = "passed")

DecideUpdateAdmin(r) ==
    /\ txn[r].kind = "admin"
    /\ LET b == txn[r].admin
       IN  Decides(r, Removes(b, txn[r].row) => ActiveSupers \ {b} # {}, txn[r].row)
    /\ UNCHANGED admin

CommitUpdateAdmin(r) ==
    /\ txn[r].kind = "admin" /\ txn[r].stage = "ready"
    /\ LET b == txn[r].admin
       IN  admin' = [admin EXCEPT ![b] = [txn[r].row EXCEPT !.uses = admin[b].uses]]
    /\ Ends(r)

(* Time.                                                                    *)
AdminEnds(b) ==
    /\ admin[b].ends = "later"
    /\ admin' = [admin EXCEPT ![b].ends = "passed"]
    /\ UNCHANGED <<holder, txn>>

===========================================================================
