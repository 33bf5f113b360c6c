--------------------------- MODULE SettingsProofs ---------------------------
(***************************************************************************)
(* Proofs about SettingsChanges for any administrators, settings, values,  *)
(* profiles and numbers of transactions.  The inductive invariant says     *)
(* what the rows that a transaction has locked, or has still to lock,      *)
(* guarantee to it.                                                        *)
(***************************************************************************)
EXTENDS SettingsChanges, FiniteLemmas, TLAPS

Entry == [old : Nat, new : Nat, seen : Nat]

(* A transaction has the fields of one; what it changes depends on its kind.*)
Shaped(t) ==
    t \in [kind : {"none", "panel", "admin", "update", "profile"},
           stage : {"none", "locking", "ready"},
           plan : Seq(Rows), admin : Admins \union {None}, change : {t.change},
           seen : {t.seen}, row : Admin \union {None}]

Typed ==
    /\ admin \in [Admins -> Admin]
    /\ holder \in [Rows -> Requests \union {None}]
    /\ txn = [r \in Requests |-> txn[r]] /\ \A r \in Requests : Shaped(txn[r])
    /\ value \in [Settings -> Nat] /\ version \in [Settings -> Nat]
    /\ history \in [Settings -> Seq(Entry)]
    /\ audit \in [Admins -> Nat]

InRange ==
    \A k \in Settings : value[k] \in Values[k] \union {First[k]} /\ version[k] \in 1..MaxVersion[k]

IsChange(r) == txn[r].kind \in {"update", "profile"}

(* The rows that a transaction relies on: locked, or in its plan.           *)
Needs(r) ==
    {txn[r].admin} \union (IF txn[r].kind = "admin" THEN {Advisory} ELSE {})
        \union (IF IsChange(r) THEN DOMAIN txn[r].change ELSE {})
InPlan(r, x) == \E i \in 1..Len(txn[r].plan) : txn[r].plan[i] = x

Locks(r) ==
    IF txn[r].kind = "none"
    THEN txn[r] = NoTxn /\ \A x \in Rows : holder[x] # r
    ELSE /\ txn[r].stage \in {"locking", "ready"} /\ txn[r].admin \in Admins
         /\ \A x \in Needs(r) : holder[x] = r \/ InPlan(r, x)
         /\ txn[r].stage = "ready" => txn[r].plan = << >>

(* Somebody else is a super administrator who can only be lost to time.     *)
AnotherSuper(b) == \E a \in Admins : a # b /\ admin[a].super /\ admin[a].status = "active"

AdminSound(r) ==
    /\ txn[r].row \in Admin
    /\ txn[r].stage = "ready" /\ Removes(txn[r].admin, txn[r].row) => AnotherSuper(txn[r].admin)

(* What an administrator saw of a setting is current if its version is.     *)
SeenSound(r) ==
    /\ DOMAIN txn[r].change \subseteq Settings
    /\ \A k \in DOMAIN txn[r].change :
          /\ txn[r].change[k] \in Values[k]
          /\ txn[r].seen[k].version \in Nat /\ txn[r].seen[k].version < MaxVersion[k]
          /\ txn[r].seen[k].version <= version[k]
          /\ txn[r].seen[k].version = version[k] => txn[r].seen[k].value = value[k]

ReadySound(r) ==
    txn[r].stage = "ready" =>
        /\ \A k \in DOMAIN txn[r].change : txn[r].seen[k].version = version[k]
        /\ admin[txn[r].admin].status = "active"
        /\ txn[r].row \in Admin /\ txn[r].row.uses = admin[txn[r].admin].uses + 1
        /\ txn[r].row.uses <= MaxUses[txn[r].admin]

TxnSound(r) ==
    /\ Locks(r)
    /\ txn[r].kind = "admin" => AdminSound(r)
    /\ IsChange(r) => SeenSound(r) /\ ReadySound(r)

TxnsSound == \A r \in Requests : TxnSound(r)

IInv == Typed /\ InRange /\ TxnsSound /\ HistoryChains /\ UsesCounted

----------------------------------------------------------------------------
LEMMA NoTxnShaped == Shaped(NoTxn)
BY DEF Shaped, NoTxn

LEMMA InitIInv == Init => IInv
<1> SUFFICES ASSUME Init PROVE IInv
  OBVIOUS
<1> USE AuthorizationAssumption, SettingsAssumption DEF Init
<1>1. Typed
  <2>1. admin \in [Admins -> Admin]
    BY DEF Admin
  <2> QED
    BY <2>1, NoTxnShaped DEF Typed
<1>2. InRange
  BY DEF InRange
<1>3. TxnsSound
  BY DEF TxnsSound, TxnSound, Locks, NoTxn, IsChange
<1>4. HistoryChains
  BY DEF HistoryChains
<1>5. UsesCounted
  BY DEF UsesCounted
<1> QED
  BY <1>1, <1>2, <1>3, <1>4, <1>5 DEF IInv

(* Two transactions never lock the same row, and a ready one has locked all *)
(* it needs.                                                                *)
LEMMA ReadyHolds ==
    ASSUME IInv, NEW r \in Requests, txn[r].stage = "ready", txn[r].kind # "none"
    PROVE  /\ txn[r].admin \in Admins
           /\ \A x \in Needs(r) : holder[x] = r
BY DEF IInv, TxnsSound, TxnSound, Locks, InPlan

(* A step that leaves the data alone keeps what transactions rely on, if it *)
(* only takes locks from r or gives free ones to r.                         *)
QuietFor(r) ==
    /\ UNCHANGED <<admin, settingVars>>
    /\ txn' = [txn EXCEPT ![r] = txn'[r]]
    /\ \A x \in Rows : holder'[x] # holder[x] => {holder[x], holder'[x]} \subseteq {r, None}

LEMMA QuietKeepsOthers ==
    ASSUME IInv, NEW r \in Requests, QuietFor(r), NEW q \in Requests, q # r
    PROVE  TxnSound(q)' /\ txn'[q] = txn[q]
<1>1. txn'[q] = txn[q]
  BY DEF QuietFor, IInv, Typed
<1>2. TxnSound(q)
  BY DEF IInv, TxnsSound
<1>3. \A x \in Rows : (holder[x] = q <=> holder'[x] = q)
  BY AuthorizationAssumption DEF QuietFor, IInv, Typed
<1>4. txn[q].kind # "none" => Needs(q) \subseteq Rows
  BY <1>2 DEF TxnSound, Locks, SeenSound, Needs, Rows
<1>5. Locks(q)'
  <2>1. Needs(q)' = Needs(q) /\ \A x : InPlan(q, x)' = InPlan(q, x)
    BY <1>1 DEF Needs, IsChange, InPlan
  <2> QED
    BY <1>1, <1>2, <1>3, <1>4, <2>1 DEF TxnSound, Locks
<1>6. txn[q].kind = "admin" => AdminSound(q)'
  BY <1>1, <1>2 DEF QuietFor, TxnSound, AdminSound, AnotherSuper, Removes, ActiveSupers
<1>7. IsChange(q) => SeenSound(q)' /\ ReadySound(q)'
  BY <1>1, <1>2 DEF QuietFor, settingVars, TxnSound, SeenSound, ReadySound
<1> QED
  BY <1>1, <1>5, <1>6, <1>7 DEF TxnSound, IsChange

LEMMA QuietKeeps ==
    ASSUME IInv, NEW r \in Requests, QuietFor(r), Shaped(txn'[r]), TxnSound(r)',
           holder' \in [Rows -> Requests \union {None}]
    PROVE  IInv'
<1>1. Typed'
  <2>1. \A q \in Requests : Shaped(txn'[q])
    BY QuietKeepsOthers DEF IInv, Typed
  <2> QED
    BY <2>1 DEF IInv, Typed, QuietFor, settingVars, Shaped
<1>2. TxnsSound'
  BY QuietKeepsOthers DEF TxnsSound
<1>3. InRange' /\ HistoryChains' /\ UsesCounted'
  BY DEF IInv, QuietFor, settingVars, InRange, HistoryChains, UsesCounted
<1> QED
  BY <1>1, <1>2, <1>3 DEF IInv

----------------------------------------------------------------------------
LEMMA EndKeeps ==
    ASSUME IInv, NEW r \in Requests, Ends(r), UNCHANGED <<admin, settingVars>>
    PROVE  IInv'
<1>1. txn'[r] = NoTxn /\ txn' = [txn EXCEPT ![r] = txn'[r]]
  BY DEF Ends, IInv, Typed
<1>2. \A x \in Rows : holder'[x] = IF holder[x] = r THEN None ELSE holder[x]
  BY DEF Ends, Unlocked
<1>3. holder' \in [Rows -> Requests \union {None}]
  BY DEF Ends, Unlocked, IInv, Typed
<1>4. QuietFor(r)
  BY <1>1, <1>2 DEF QuietFor
<1>5. TxnSound(r)'
  BY <1>1, <1>2, AuthorizationAssumption DEF NoTxn, TxnSound, Locks, IsChange
<1> QED
  BY <1>1, <1>3, <1>4, <1>5, NoTxnShaped, QuietKeeps

LEMMA TakeKeeps ==
    ASSUME IInv, NEW r \in Requests, Take(r), UNCHANGED settingVars
    PROVE  IInv'
<1> DEFINE x == Head(txn[r].plan)
           p == txn[r].plan
<1>1. Shaped(txn[r]) /\ p \in Seq(Rows) /\ p # << >>
  BY DEF IInv, Typed, Take, Shaped
<1>2. x \in Rows /\ x = p[1] /\ Tail(p) \in Seq(Rows) /\ Len(Tail(p)) = Len(p) - 1
      /\ \A i \in 1..Len(Tail(p)) : Tail(p)[i] = p[i + 1]
  BY <1>1
<1>3. /\ txn'[r] = [txn[r] EXCEPT !.plan = Tail(p)] /\ txn' = [txn EXCEPT ![r] = txn'[r]]
      /\ holder[x] = None /\ holder' = [holder EXCEPT ![x] = r]
  BY DEF Take, IInv, Typed
<1>4. holder' \in [Rows -> Requests \union {None}]
  BY <1>2, <1>3 DEF IInv, Typed
<1>5. QuietFor(r)
  BY <1>3 DEF QuietFor, Take, IInv, Typed
<1>6. Shaped(txn'[r]) /\ txn'[r].plan = Tail(p)
      /\ txn'[r].kind = txn[r].kind /\ txn'[r].stage = txn[r].stage /\ txn'[r].row = txn[r].row
      /\ txn'[r].admin = txn[r].admin /\ txn'[r].change = txn[r].change
      /\ txn'[r].seen = txn[r].seen
  BY <1>1, <1>2, <1>3 DEF Shaped
<1>7. TxnSound(r)
  BY DEF IInv, TxnsSound
<1>8. txn[r].kind # "none" /\ txn[r].stage = "locking" /\ Needs(r) \subseteq Rows
  BY <1>1, <1>7 DEF TxnSound, Locks, NoTxn, SeenSound, Needs, Rows
<1>9. Locks(r)'
  <2>1. Needs(r)' = Needs(r)
    BY <1>6 DEF Needs, IsChange
  <2>2. ASSUME NEW y \in Needs(r) PROVE holder'[y] = r \/ InPlan(r, y)'
    <3>1. CASE y = x
      BY <1>2, <1>3, <3>1 DEF IInv, Typed
    <3>2. CASE holder[y] = r /\ y # x
      BY <1>3, <1>8, <3>2 DEF IInv, Typed
    <3>3. CASE InPlan(r, y) /\ y # x
      <4>1. PICK i \in 1..Len(p) : p[i] = y
        BY <3>3 DEF InPlan
      <4>2. i # 1 /\ i - 1 \in 1..Len(Tail(p)) /\ Tail(p)[i - 1] = y
        BY <1>1, <1>2, <3>3, <4>1
      <4> QED
        BY <1>6, <4>2 DEF InPlan
    <3> QED
      BY <1>7, <1>8, <3>1, <3>2, <3>3 DEF TxnSound, Locks
  <2> QED
    BY <1>6, <1>7, <1>8, <2>1, <2>2 DEF TxnSound, Locks
<1>10. TxnSound(r)'
  <2>1. txn[r].stage # "ready"
    BY <1>8
  <2>2. UNCHANGED <<admin, settingVars>>
    BY DEF Take
  <2>3. txn[r].kind = "admin" => AdminSound(r)'
    BY <1>6, <1>7, <2>1 DEF TxnSound, AdminSound
  <2>4. IsChange(r) => SeenSound(r)' /\ ReadySound(r)'
    BY <1>6, <1>7, <2>1, <2>2 DEF TxnSound, SeenSound, ReadySound, settingVars
  <2> QED
    BY <1>6, <1>9, <2>3, <2>4 DEF TxnSound, IsChange
<1> QED
  BY <1>4, <1>5, <1>6, <1>10, QuietKeeps

(* A transaction that begins has a plan with all the rows it relies on.     *)
Planned(plan, rows) == \A x \in rows : \E i \in 1..Len(plan) : plan[i] = x

Proper(kind, plan, a, change, seen, row) ==
    /\ kind \in {"panel", "admin", "update", "profile"}
    /\ plan \in Seq(Rows) /\ a \in Admins /\ row \in Admin \union {None}
    /\ Planned(plan, {a})
    /\ kind = "admin" => row \in Admin /\ Planned(plan, {Advisory})
    /\ kind \in {"update", "profile"} =>
          /\ DOMAIN change \subseteq Settings /\ Planned(plan, DOMAIN change)
          /\ \A k \in DOMAIN change :
                /\ change[k] \in Values[k]
                /\ seen[k] = [version |-> version[k], value |-> value[k]]
                /\ version[k] < MaxVersion[k]

LEMMA BeginKeeps ==
    ASSUME IInv, UNCHANGED settingVars, NEW r \in Requests,
           NEW kind, NEW plan, NEW a, NEW change, NEW seen, NEW row,
           Begin(r, kind, plan, a, change, seen, row), Proper(kind, plan, a, change, seen, row)
    PROVE  IInv'
<1> DEFINE t == [kind |-> kind, stage |-> "locking", plan |-> plan, admin |-> a,
                 change |-> change, seen |-> seen, row |-> row]
<1>1. txn'[r] = t /\ txn' = [txn EXCEPT ![r] = txn'[r]]
  BY DEF Begin, IInv, Typed
<1>2. Shaped(t)
  BY DEF Shaped, Proper
<1>3. QuietFor(r)
  BY <1>1 DEF QuietFor, Begin
<1>4. /\ txn'[r].kind = kind /\ txn'[r].stage = "locking" /\ txn'[r].plan = plan
      /\ txn'[r].admin = a /\ txn'[r].change = change /\ txn'[r].seen = seen
      /\ txn'[r].row = row
  BY <1>1
<1> HIDE DEF t
<1>5. Locks(r)'
  <2>1. \A x \in Needs(r)' : InPlan(r, x)'
    BY <1>4 DEF Needs, IsChange, InPlan, Proper, Planned
  <2> QED
    BY <1>4, <2>1 DEF Locks, Proper
<1>6. IsChange(r)' => SeenSound(r)' /\ ReadySound(r)'
  <2> SUFFICES ASSUME kind \in {"update", "profile"} PROVE SeenSound(r)' /\ ReadySound(r)'
    BY <1>4 DEF IsChange
  <2>1. version' = version /\ value' = value /\ version \in [Settings -> Nat]
    BY DEF settingVars, IInv, Typed
  <2>2. DOMAIN change \subseteq Settings
        /\ \A k \in DOMAIN change :
              /\ change[k] \in Values[k] /\ version[k] < MaxVersion[k]
              /\ seen[k].version = version[k] /\ seen[k].value = value[k]
    <3>1. DOMAIN change \subseteq Settings
          /\ \A k \in DOMAIN change :
                /\ change[k] \in Values[k] /\ version[k] < MaxVersion[k]
                /\ seen[k] = [version |-> version[k], value |-> value[k]]
      BY DEF Proper
    <3>2. ASSUME NEW k \in DOMAIN change
          PROVE  seen[k].version = version[k] /\ seen[k].value = value[k]
      <4>1. seen[k] = [version |-> version[k], value |-> value[k]]
        BY <3>1
      <4> QED
        BY <4>1
    <3> QED
      BY <3>1, <3>2
  <2>3. ReadySound(r)'
    BY <1>4 DEF ReadySound
  <2>4. \A k \in DOMAIN change : version[k] \in Nat /\ version[k] <= version[k]
    BY <2>1, <2>2
  <2>5. SeenSound(r)'
    BY <1>4, <2>1, <2>2, <2>4 DEF SeenSound
  <2> QED
    BY <2>3, <2>5
<1>7. TxnSound(r)'
  BY <1>4, <1>5, <1>6 DEF TxnSound, AdminSound, Proper
<1> QED
  BY <1>1, <1>2, <1>3, <1>7, QuietKeeps DEF Begin, IInv, Typed

LEMMA NewRows ==
    ASSUME IInv, NEW b \in Admins
    PROVE  Initial(b) \in Admin /\ \A update \in Updates : NewRow(b, update) \in Admin
<1>1. Initial(b) \in Admin
  <2> DEFINE old == admin[b]
             granted == [old EXCEPT !.super = TRUE]
             back == [granted EXCEPT !.status = "active"]
             kept == [back EXCEPT !.ends = "never"]
  <2>1. granted \in Admin
    BY DEF IInv, Typed, Admin
  <2> HIDE DEF granted
  <2>2. back \in Admin
    BY <2>1 DEF Admin
  <2> HIDE DEF back
  <2>3. kept \in Admin
    BY <2>2 DEF Admin
  <2> QED
    BY <2>3 DEF Initial, back, granted
<1>2. ASSUME NEW update \in Updates PROVE NewRow(b, update) \in Admin
  BY <1>1, AuthorizationAssumption DEF NewRow, Admin
<1> QED
  BY <1>1, <1>2

LEMMA BeginsKeep ==
    ASSUME IInv, UNCHANGED settingVars, NEW r \in Requests, NEW a \in Admins,
           \/ BeginPanel(r, a)
           \/ BeginUpdateAdmin(r, a)
           \/ BeginBootstrap(r, a)
           \/ \E k \in Settings : BeginUpdate(r, a, k)
           \/ BeginProfile(r, a)
    PROVE  IInv'
<1> USE AuthorizationAssumption, SettingsAssumption
<1>0. a \in Rows /\ Advisory \in Rows /\ Settings \subseteq Rows
  BY DEF Rows
<1>1. CASE BeginPanel(r, a)
  <2>1. <<a>> \in Seq(Rows) /\ Planned(<<a>>, {a})
    BY <1>0 DEF Planned
  <2>2. Proper("panel", <<a>>, a, << >>, << >>, None)
    BY <2>1 DEF Proper
  <2> QED
    BY <1>1, <2>2, BeginKeeps DEF BeginPanel
<1>2. ASSUME NEW row \in Admin, Begin(r, "admin", TriggerPlan(a), a, << >>, << >>, row)
      PROVE  IInv'
  <2>1. /\ TriggerPlan(a) \in Seq(Rows) /\ Len(TriggerPlan(a)) = 2
        /\ TriggerPlan(a)[1] = a /\ TriggerPlan(a)[2] = Advisory
    BY <1>0 DEF TriggerPlan
  <2>2. Proper("admin", TriggerPlan(a), a, << >>, << >>, row)
    BY <2>1 DEF Proper, Planned
  <2> QED
    BY <1>2, <2>2, BeginKeeps
<1>3. CASE BeginUpdateAdmin(r, a) \/ BeginBootstrap(r, a)
  BY <1>2, <1>3, NewRows DEF BeginUpdateAdmin, BeginBootstrap
<1>4. CASE \E k \in Settings : BeginUpdate(r, a, k)
  <2> PICK k \in Settings : BeginUpdate(r, a, k)
    BY <1>4
  <2>1. PICK v \in Values[k] :
            Begin(r, "update", UpdatePlan(k, a), a, [x \in {k} |-> v], Seen({k}), None)
    BY DEF BeginUpdate
  <2>2. /\ UpdatePlan(k, a) \in Seq(Rows) /\ Len(UpdatePlan(k, a)) = 2
        /\ UpdatePlan(k, a)[1] = k /\ UpdatePlan(k, a)[2] = a
    BY <1>0 DEF UpdatePlan
  <2>3. /\ Seen({k})[k] = [version |-> version[k], value |-> value[k]]
        /\ version[k] < MaxVersion[k]
    BY DEF Seen, BeginUpdate
  <2>4. Proper("update", UpdatePlan(k, a), a, [x \in {k} |-> v], Seen({k}), None)
    BY <2>2, <2>3 DEF Proper, Planned
  <2> QED
    BY <2>1, <2>4, BeginKeeps
<1>5. CASE BeginProfile(r, a)
  <2> DEFINE plan == <<a>> \o ProfileKeys
  <2>1. /\ plan \in Seq(Rows) /\ Len(plan) = Len(ProfileKeys) + 1 /\ plan[1] = a
        /\ \A i \in 1..Len(ProfileKeys) : plan[i + 1] = ProfileKeys[i]
        /\ Len(ProfileKeys) \in Nat /\ DOMAIN ProfileKeys = 1..Len(ProfileKeys)
    BY <1>0
  <2>2. DOMAIN Profile \subseteq Settings
    OBVIOUS
  <2>3. ASSUME NEW k \in DOMAIN Profile PROVE \E i \in 1..Len(plan) : plan[i] = k
    <3>1. PICK i \in 1..Len(ProfileKeys) : ProfileKeys[i] = k
      BY <2>1
    <3>2. i + 1 \in 1..Len(plan) /\ plan[i + 1] = k
      BY <2>1, <3>1
    <3> QED
      BY <3>2
  <2>4. \A k \in DOMAIN Profile :
            /\ Seen(DOMAIN Profile)[k] = [version |-> version[k], value |-> value[k]]
            /\ version[k] < MaxVersion[k] /\ Profile[k] \in Values[k]
    BY <1>5 DEF Seen, BeginProfile
  <2>5. Begin(r, "profile", plan, a, Profile, Seen(DOMAIN Profile), None)
    BY <1>5 DEF BeginProfile
  <2>6. 1 \in 1..Len(plan)
    BY <2>1
  <2> HIDE DEF plan
  <2>7. Planned(plan, {a}) /\ Planned(plan, DOMAIN Profile)
    BY <2>1, <2>3, <2>6 DEF Planned
  <2>8. Proper("profile", plan, a, Profile, Seen(DOMAIN Profile), None)
    BY <2>1, <2>2, <2>4, <2>7 DEF Proper
  <2> QED
    BY <2>5, <2>8, BeginKeeps
<1> QED
  BY <1>1, <1>3, <1>4, <1>5

----------------------------------------------------------------------------
(* A transaction whose check has passed and that holds all its locks.       *)
LEMMA ReadyKeeps ==
    ASSUME IInv, NEW r \in Requests, NEW row, row \in Admin \union {None},
           UNCHANGED <<admin, holder, settingVars>>,
           txn[r].stage = "locking", txn[r].plan = << >>,
           txn' = [txn EXCEPT ![r].stage = "ready", ![r].row = row],
           txn[r].kind = "admin" => row \in Admin
               /\ (Removes(txn[r].admin, row) => AnotherSuper(txn[r].admin)),
           IsChange(r) =>
               /\ \A k \in DOMAIN txn[r].change : txn[r].seen[k].version = version[k]
               /\ admin[txn[r].admin].status = "active"
               /\ row \in Admin /\ row.uses = admin[txn[r].admin].uses + 1
               /\ row.uses <= MaxUses[txn[r].admin]
    PROVE  IInv'
<1>1. Shaped(txn[r])
  BY DEF IInv, Typed
<1>2. /\ txn'[r] = [txn[r] EXCEPT !.stage = "ready", !.row = row]
      /\ txn' = [txn EXCEPT ![r] = txn'[r]]
  BY DEF IInv, Typed
<1>3. /\ Shaped(txn'[r]) /\ txn'[r].plan = << >> /\ txn'[r].kind = txn[r].kind
      /\ txn'[r].stage = "ready" /\ txn'[r].row = row /\ txn'[r].admin = txn[r].admin
      /\ txn'[r].change = txn[r].change /\ txn'[r].seen = txn[r].seen
  <2> DEFINE old == txn[r]
             mid == [old EXCEPT !.stage = "ready"]
             new == [mid EXCEPT !.row = row]
  <2>1. /\ Shaped(mid) /\ mid.kind = old.kind /\ mid.stage = "ready" /\ mid.plan = << >>
        /\ mid.admin = old.admin /\ mid.change = old.change /\ mid.seen = old.seen
    BY <1>1 DEF Shaped
  <2> HIDE DEF mid
  <2>2. /\ Shaped(new) /\ new.kind = old.kind /\ new.stage = "ready" /\ new.plan = << >>
        /\ new.admin = old.admin /\ new.change = old.change /\ new.seen = old.seen
        /\ new.row = row
    BY <2>1 DEF Shaped
  <2>3. txn'[r] = new
    BY <1>2 DEF mid
  <2> QED
    BY <2>2, <2>3
<1>4. QuietFor(r)
  BY <1>2 DEF QuietFor
<1>5. TxnSound(r) /\ txn[r].kind # "none"
  BY DEF IInv, TxnsSound, TxnSound, Locks, NoTxn
<1>6. Locks(r)'
  <2>1. Needs(r)' = Needs(r) /\ \A x : InPlan(r, x)' <=> InPlan(r, x)
    BY <1>3 DEF Needs, IsChange, InPlan
  <2> QED
    BY <1>3, <1>5, <2>1 DEF TxnSound, Locks
<1>7. AdminSound(r)' \/ txn[r].kind # "admin"
  BY <1>3 DEF AdminSound, AnotherSuper, Removes, ActiveSupers
<1>8. IsChange(r) => SeenSound(r)' /\ ReadySound(r)'
  <2>1. IsChange(r) => SeenSound(r)'
    BY <1>3, <1>5 DEF TxnSound, SeenSound, settingVars
  <2>2. IsChange(r) => ReadySound(r)'
    BY <1>3 DEF ReadySound, settingVars
  <2> QED
    BY <2>1, <2>2
<1> QED
  BY <1>3, <1>4, <1>6, <1>7, <1>8, QuietKeeps DEF TxnSound, IsChange, IInv, Typed

LEMMA DecidesKeep ==
    ASSUME IInv, NEW r \in Requests,
           \/ DecidePanel(r) /\ UNCHANGED settingVars
           \/ DecideUpdateAdmin(r) /\ UNCHANGED settingVars
           \/ DecideChange(r)
    PROVE  IInv'
<1>0. TxnSound(r) /\ Shaped(txn[r])
  BY DEF IInv, Typed, TxnsSound
<1>1. CASE Ends(r) /\ UNCHANGED <<admin, settingVars>>
  BY <1>1, EndKeeps
<1>2. CASE DecidePanel(r) /\ UNCHANGED settingVars /\ ~ Ends(r)
  BY <1>2, ReadyKeeps DEF DecidePanel, Decides, IsChange
<1>3. CASE DecideUpdateAdmin(r) /\ UNCHANGED settingVars /\ ~ Ends(r)
  <2>1. txn[r].kind = "admin" /\ txn[r].row \in Admin
    BY <1>0, <1>3 DEF DecideUpdateAdmin, TxnSound, AdminSound
  <2>2. Removes(txn[r].admin, txn[r].row) => AnotherSuper(txn[r].admin)
    BY <1>3 DEF DecideUpdateAdmin, Decides, ActiveSupers, AnotherSuper
  <2> QED
    BY <1>3, <2>1, <2>2, ReadyKeeps DEF DecideUpdateAdmin, Decides, IsChange
<1>4. CASE DecideChange(r) /\ ~ Ends(r)
  <2> DEFINE a == txn[r].admin
             row == [admin[a] EXCEPT !.uses = @ + 1]
  <2>1. a \in Admins /\ admin[a] \in Admin /\ MaxUses[a] \in Nat
    BY <1>0, <1>4, AuthorizationAssumption
    DEF DecideChange, TxnSound, Locks, IInv, Typed
  <2>2. row \in Admin /\ row.uses = admin[a].uses + 1
    BY <2>1 DEF Admin
  <2>3. /\ txn[r].stage = "locking" /\ txn[r].plan = << >> /\ txn[r].kind # "admin"
        /\ txn' = [txn EXCEPT ![r].stage = "ready", ![r].row = row]
        /\ UNCHANGED <<admin, holder, settingVars>>
        /\ Unchanged(txn[r].change, txn[r].seen) /\ MayChange(a)
    BY <1>4 DEF DecideChange, Decides
  <2>4. /\ \A k \in DOMAIN txn[r].change : txn[r].seen[k].version = version[k]
        /\ admin[a].status = "active" /\ admin[a].uses < MaxUses[a]
    BY <2>3 DEF Unchanged, MayChange, Permitted
  <2>5. row.uses <= MaxUses[a]
    BY <2>1, <2>2, <2>4 DEF Admin
  <2> HIDE DEF row
  <2> QED
    BY <2>2, <2>3, <2>4, <2>5, ReadyKeeps
<1> QED
  BY <1>1, <1>2, <1>3, <1>4 DEF DecidePanel, DecideUpdateAdmin, DecideChange, Decides

----------------------------------------------------------------------------
(* The end of a transaction frees its rows and leaves the others theirs.    *)
LEMMA EndFrees ==
    ASSUME IInv, NEW r \in Requests, Ends(r)
    PROVE  /\ txn' = [q \in Requests |-> txn'[q]] /\ \A q \in Requests : Shaped(txn'[q])
           /\ holder' \in [Rows -> Requests \union {None}]
           /\ txn'[r] = NoTxn /\ TxnSound(r)'
           /\ \A q \in Requests : q # r => txn'[q] = txn[q] /\ Locks(q)'
<1>1. txn'[r] = NoTxn /\ \A q \in Requests : q # r => txn'[q] = txn[q]
  BY DEF Ends, IInv, Typed
<1>2. \A x \in Rows : holder'[x] = IF holder[x] = r THEN None ELSE holder[x]
  BY DEF Ends, Unlocked
<1>3. holder' \in [Rows -> Requests \union {None}]
  BY DEF Ends, Unlocked, IInv, Typed
<1>4. TxnSound(r)'
  BY <1>1, <1>2, AuthorizationAssumption DEF NoTxn, TxnSound, Locks, IsChange
<1>5. ASSUME NEW q \in Requests, q # r PROVE Locks(q)'
  <2>1. TxnSound(q) /\ txn'[q] = txn[q]
    BY <1>1, <1>5 DEF IInv, TxnsSound
  <2>2. \A x \in Rows : (holder[x] = q <=> holder'[x] = q)
    BY <1>2, <1>5, AuthorizationAssumption
  <2>3. txn[q].kind # "none" => Needs(q) \subseteq Rows
    BY <2>1 DEF TxnSound, Locks, SeenSound, Needs, Rows
  <2>4. Needs(q)' = Needs(q) /\ \A x : InPlan(q, x)' = InPlan(q, x)
    BY <2>1 DEF Needs, IsChange, InPlan
  <2> QED
    BY <2>1, <2>2, <2>3, <2>4 DEF TxnSound, Locks
<1>6. txn' = [q \in Requests |-> txn'[q]]
  BY DEF Ends, IInv, Typed
<1> QED
  BY <1>1, <1>3, <1>4, <1>5, <1>6, NoTxnShaped DEF IInv, Typed

LEMMA UpdateAdminKeeps ==
    ASSUME IInv, NEW r \in Requests, CommitUpdateAdmin(r), UNCHANGED settingVars
    PROVE  IInv'
<1> DEFINE b == txn[r].admin
           row == txn[r].row
<1>1. TxnSound(r) /\ txn[r].kind = "admin" /\ txn[r].stage = "ready" /\ Ends(r)
  BY DEF CommitUpdateAdmin, IInv, TxnsSound
<1>2. b \in Admins /\ holder[b] = r /\ holder[Advisory] = r /\ row \in Admin
  BY <1>1, ReadyHolds DEF Needs, TxnSound, AdminSound
<1>3. /\ admin' = [admin EXCEPT ![b] = admin'[b]] /\ admin' \in [Admins -> Admin]
      /\ admin'[b].uses = admin[b].uses
  <2>1. admin' = [admin EXCEPT ![b] = [row EXCEPT !.uses = admin[b].uses]]
    BY DEF CommitUpdateAdmin
  <2>2. [row EXCEPT !.uses = admin[b].uses] \in Admin
        /\ [row EXCEPT !.uses = admin[b].uses].uses = admin[b].uses
    BY <1>2 DEF IInv, Typed, Admin
  <2> QED
    BY <1>2, <2>1, <2>2 DEF IInv, Typed
<1>4. \A a \in Admins : a # b => admin'[a] = admin[a]
  BY <1>2, <1>3 DEF IInv, Typed
<1>5. Typed'
  BY <1>1, <1>3, EndFrees DEF IInv, Typed, settingVars
<1>6. ASSUME NEW q \in Requests, q # r PROVE TxnSound(q)'
  <2>1. TxnSound(q) /\ txn'[q] = txn[q] /\ Locks(q)'
    BY <1>1, <1>6, EndFrees DEF IInv, TxnsSound
  <2>2. txn[q].kind = "admin" => txn[q].stage # "ready"
    BY <1>2, <1>6, ReadyHolds DEF Needs
  <2>3. txn[q].kind = "admin" => AdminSound(q)'
    BY <2>1, <2>2 DEF TxnSound, AdminSound
  <2>4. txn[q].stage = "ready" /\ txn[q].kind # "none" => txn[q].admin \in Admins \ {b}
    BY <1>2, <1>6, ReadyHolds DEF Needs
  <2>5. IsChange(q) => SeenSound(q)'
    BY <2>1 DEF TxnSound, SeenSound, settingVars
  <2>6. IsChange(q) => ReadySound(q)'
    BY <1>4, <2>1, <2>4 DEF TxnSound, ReadySound, settingVars, IsChange
  <2> QED
    BY <2>1, <2>3, <2>5, <2>6 DEF TxnSound, IsChange
<1>7. TxnsSound'
  BY <1>1, <1>6, EndFrees DEF TxnsSound
<1>8. InRange' /\ HistoryChains'
  BY DEF IInv, settingVars, InRange, HistoryChains
<1>9. UsesCounted'
  BY <1>3, <1>4 DEF IInv, settingVars, UsesCounted
<1> QED
  BY <1>5, <1>7, <1>8, <1>9 DEF IInv

LEMMA AdminEndsKeeps ==
    ASSUME IInv, NEW b \in Admins, AdminEnds(b), UNCHANGED settingVars
    PROVE  IInv'
<1>1. /\ admin' = [admin EXCEPT ![b] = [admin[b] EXCEPT !.ends = "passed"]]
      /\ UNCHANGED <<holder, txn>>
  BY DEF AdminEnds
<1>2. /\ admin' \in [Admins -> Admin]
      /\ \A a \in Admins : /\ admin'[a].super = admin[a].super
                           /\ admin'[a].status = admin[a].status
                           /\ admin'[a].uses = admin[a].uses
                           /\ admin'[a].ends # admin[a].ends => admin'[a].ends = "passed"
  <2>1. [admin[b] EXCEPT !.ends = "passed"] \in Admin
    BY DEF IInv, Typed, Admin
  <2> QED
    BY <1>1, <2>1 DEF IInv, Typed, Admin
<1>3. Typed'
  BY <1>1, <1>2 DEF IInv, Typed, settingVars, Shaped
<1>4. ASSUME NEW q \in Requests PROVE TxnSound(q)'
  <2>1. TxnSound(q) /\ txn'[q] = txn[q] /\ Locks(q)'
    BY <1>1 DEF IInv, TxnsSound, TxnSound, Locks, Needs, InPlan, IsChange
  <2>2. AnotherSuper(txn[q].admin) => AnotherSuper(txn[q].admin)'
    BY <1>1, <1>2 DEF AnotherSuper
  <2>3. Removes(txn[q].admin, txn[q].row)' => Removes(txn[q].admin, txn[q].row)
    BY <1>1, <1>2 DEF Removes, ActiveSupers
  <2>4. txn[q].kind = "admin" => AdminSound(q)'
    BY <2>1, <2>2, <2>3 DEF TxnSound, AdminSound
  <2>5. IsChange(q) => SeenSound(q)'
    BY <2>1 DEF TxnSound, SeenSound, settingVars
  <2>6. txn[q].kind # "none" => txn[q].admin \in Admins
    BY <2>1 DEF TxnSound, Locks
  <2>7. IsChange(q) => ReadySound(q)'
    BY <1>2, <2>1, <2>6 DEF TxnSound, ReadySound, settingVars, IsChange
  <2> QED
    BY <2>1, <2>4, <2>5, <2>7 DEF TxnSound, IsChange
<1>5. InRange' /\ HistoryChains' /\ UsesCounted'
  BY <1>2 DEF IInv, settingVars, InRange, HistoryChains, UsesCounted
<1> QED
  BY <1>3, <1>4, <1>5 DEF IInv, TxnsSound

(* What the commit of a change does: C are its settings, b is its admin.    *)
Effects(r, C, b) ==
    /\ b \in Admins /\ C \subseteq Settings
    /\ \A x \in C \union {b} : holder[x] = r
    /\ \A k \in C : /\ value'[k] = txn[r].change[k] /\ value'[k] \in Values[k]
                     /\ version'[k] = version[k] + 1 /\ version'[k] <= MaxVersion[k]
                     /\ history'[k] = Append(history[k],
                             [old |-> value[k], new |-> value'[k], seen |-> value[k]])
    /\ \A k \in Settings \ C : /\ value'[k] = value[k] /\ version'[k] = version[k]
                                /\ history'[k] = history[k]
    /\ value' = [k \in Settings |-> value'[k]]
    /\ version' = [k \in Settings |-> version'[k]]
    /\ history' = [k \in Settings |-> history'[k]]
    /\ admin[b].status = "active"

LEMMA ChangeEffects ==
    ASSUME IInv, NEW r \in Requests, CommitChange(r),
           NEW C, C = DOMAIN txn[r].change, NEW b, b = txn[r].admin
    PROVE  Effects(r, C, b)
<1>1. /\ IsChange(r) /\ txn[r].stage = "ready" /\ txn[r].kind # "none"
      /\ SeenSound(r) /\ ReadySound(r)
  BY DEF CommitChange, IInv, TxnsSound, TxnSound, IsChange
<1>2. b \in Admins /\ \A x \in C \union {b} : holder[x] = r
  BY <1>1, ReadyHolds DEF Needs
<1>3. C \subseteq Settings /\ \A k \in C : /\ txn[r].change[k] \in Values[k]
                                          /\ txn[r].seen[k].version = version[k]
                                          /\ txn[r].seen[k].value = value[k]
                                          /\ version[k] < MaxVersion[k]
  BY <1>1 DEF SeenSound, ReadySound
<1>4. /\ value' = [k \in Settings |-> IF k \in C THEN txn[r].change[k] ELSE value[k]]
      /\ version' = [k \in Settings |-> IF k \in C THEN txn[r].seen[k].version + 1
                                                   ELSE version[k]]
      /\ history' = [k \in Settings |->
             IF k \in C
             THEN Append(history[k], [old |-> value[k], new |-> txn[r].change[k],
                                      seen |-> txn[r].seen[k].value])
             ELSE history[k]]
  BY DEF CommitChange, Proposed
<1>5. \A k \in C : /\ value'[k] = txn[r].change[k] /\ value'[k] \in Values[k]
                   /\ version'[k] = version[k] + 1
                   /\ history'[k] = Append(history[k],
                           [old |-> value[k], new |-> value'[k], seen |-> value[k]])
  BY <1>3, <1>4
<1>6. ASSUME NEW k \in C PROVE version'[k] <= MaxVersion[k]
  <2>1. k \in Settings /\ version[k] \in Nat /\ MaxVersion[k] \in Nat
    BY <1>3, SettingsAssumption DEF IInv, Typed
  <2>2. version[k] < MaxVersion[k] /\ version'[k] = version[k] + 1
    BY <1>3, <1>5
  <2> QED
    BY <2>1, <2>2
<1>7. admin[b].status = "active"
  BY <1>1 DEF ReadySound
<1> QED
  BY <1>2, <1>3, <1>4, <1>5, <1>6, <1>7 DEF Effects

LEMMA ChangeKeeps ==
    ASSUME IInv, NEW r \in Requests, CommitChange(r)
    PROVE  IInv'
<1> DEFINE C == DOMAIN txn[r].change
           b == txn[r].admin
<1> HIDE DEF C, b
<1>0. C = DOMAIN txn[r].change /\ b = txn[r].admin /\ Ends(r)
  BY DEF C, b, CommitChange
<1> Effects(r, C, b)
  BY <1>0, ChangeEffects
<1>1. /\ b \in Admins /\ C \subseteq Settings
      /\ \A x \in C \union {b} : holder[x] = r
  BY DEF Effects
<1>2. \A k \in C : /\ value'[k] \in Values[k]
                   /\ version'[k] = version[k] + 1 /\ version'[k] <= MaxVersion[k]
                   /\ history'[k] = Append(history[k],
                           [old |-> value[k], new |-> value'[k], seen |-> value[k]])
  BY DEF Effects
<1>3. \A k \in Settings \ C : /\ value'[k] = value[k] /\ version'[k] = version[k]
                              /\ history'[k] = history[k]
  BY DEF Effects
<1>4. /\ value' = [k \in Settings |-> value'[k]]
      /\ version' = [k \in Settings |-> version'[k]]
      /\ history' = [k \in Settings |-> history'[k]]
  BY DEF Effects
<1>5. /\ audit' = [audit EXCEPT ![b] = audit[b] + 1]
      /\ admin' = [admin EXCEPT ![b].uses = admin[b].uses + 1]
      /\ admin[b].uses + 1 <= MaxUses[b]
  <2>1. TxnSound(r) /\ IsChange(r) /\ txn[r].stage = "ready"
    BY DEF IInv, TxnsSound, CommitChange, IsChange
  <2>2. txn[r].row.uses = admin[b].uses + 1 /\ txn[r].row.uses <= MaxUses[b]
    BY <1>0, <2>1 DEF TxnSound, ReadySound
  <2>3. /\ audit' = [audit EXCEPT ![b] = audit[b] + 1]
        /\ admin' = [admin EXCEPT ![b].uses = txn[r].row.uses]
    BY <1>0 DEF CommitChange
  <2> QED
    BY <2>2, <2>3
<1>6. ASSUME NEW k \in Settings PROVE Values[k] \subseteq Nat /\ MaxVersion[k] \in Nat
  <2>1. Values \in [Settings -> SUBSET Nat] /\ MaxVersion \in [Settings -> Nat \ {0}]
    BY SettingsAssumption
  <2>2. Values[k] \in SUBSET Nat /\ MaxVersion[k] \in Nat
    BY <2>1
  <2> QED
    BY <2>2
<1>7. \A k \in Settings : value[k] \in Nat /\ version[k] \in Nat /\ history[k] \in Seq(Entry)
  BY DEF IInv, Typed
<1>8. /\ admin' \in [Admins -> Admin] /\ audit' \in [Admins -> Nat]
      /\ admin'[b].uses = admin[b].uses + 1 /\ audit'[b] = audit[b] + 1
      /\ \A a \in Admins \ {b} : admin'[a] = admin[a] /\ audit'[a] = audit[a]
      /\ \A a \in Admins : /\ admin'[a].super = admin[a].super
                           /\ admin'[a].status = admin[a].status
                           /\ admin'[a].ends = admin[a].ends
  <2>1. admin[b] \in Admin /\ admin[b].uses \in Nat /\ audit[b] \in Nat
    BY <1>1 DEF IInv, Typed, Admin
  <2>2. [admin[b] EXCEPT !.uses = admin[b].uses + 1] \in Admin
    BY <2>1 DEF Admin
  <2>3. admin' = [admin EXCEPT ![b] = [admin[b] EXCEPT !.uses = admin[b].uses + 1]]
    BY <1>5
  <2>4. admin' \in [Admins -> Admin] /\ \A a \in Admins \ {b} : admin'[a] = admin[a]
    BY <1>1, <2>2, <2>3 DEF IInv, Typed
  <2>5. admin'[b] = [admin[b] EXCEPT !.uses = admin[b].uses + 1]
    BY <1>1, <2>3 DEF IInv, Typed
  <2>6. /\ admin'[b].uses = admin[b].uses + 1 /\ admin'[b].super = admin[b].super
        /\ admin'[b].status = admin[b].status /\ admin'[b].ends = admin[b].ends
    BY <2>1, <2>5 DEF Admin
  <2>7. /\ audit' \in [Admins -> Nat] /\ audit'[b] = audit[b] + 1
        /\ \A a \in Admins \ {b} : audit'[a] = audit[a]
    BY <1>1, <1>5, <2>1 DEF IInv, Typed
  <2> QED
    BY <2>4, <2>6, <2>7
<1>9. Typed'
  <2>1. value' \in [Settings -> Nat] /\ version' \in [Settings -> Nat]
    <3>1. ASSUME NEW k \in Settings PROVE value'[k] \in Nat /\ version'[k] \in Nat
      <4>1. CASE k \in C
        <5>1. value'[k] \in Nat
          BY <1>2, <1>6, <4>1
        <5>2. version'[k] = version[k] + 1 /\ version[k] \in Nat
          BY <1>2, <1>7, <4>1
        <5> QED
          BY <5>1, <5>2
      <4>2. CASE k \notin C
        BY <1>3, <1>7, <4>2
      <4> QED
        BY <4>1, <4>2
    <3> QED
      BY <1>4, <3>1
  <2>2. ASSUME NEW k \in Settings PROVE history'[k] \in Seq(Entry)
    <3>1. CASE k \in C
      <4>1. [old |-> value[k], new |-> value'[k], seen |-> value[k]] \in Entry
        BY <1>2, <1>6, <1>7, <3>1 DEF Entry
      <4>2. history'[k] = Append(history[k],
                [old |-> value[k], new |-> value'[k], seen |-> value[k]])
        BY <1>2, <3>1
      <4>3. history[k] \in Seq(Entry)
        BY <1>7
      <4> QED
        BY <4>1, <4>2, <4>3
    <3> QED
      BY <1>3, <1>7, <3>1
  <2>3. history' \in [Settings -> Seq(Entry)]
    BY <1>4, <2>2
  <2> QED
    BY <1>0, <1>8, <2>1, <2>3, EndFrees DEF Typed
<1>10. InRange'
  <2> SUFFICES ASSUME NEW k \in Settings
               PROVE  /\ value'[k] \in Values[k] \union {First[k]}
                      /\ version'[k] \in 1..MaxVersion[k]
    BY DEF InRange
  <2>1. value[k] \in Values[k] \union {First[k]} /\ version[k] \in 1..MaxVersion[k]
    BY DEF IInv, InRange
  <2>2. CASE k \in C
    <3>1. /\ value'[k] \in Values[k] /\ version'[k] = version[k] + 1
          /\ version'[k] <= MaxVersion[k]
      BY <1>2, <2>2
    <3>2. version[k] \in Nat /\ MaxVersion[k] \in Nat
      BY <1>6, <1>7
    <3> QED
      BY <3>1, <3>2
  <2>3. CASE k \notin C
    BY <1>3, <2>1, <2>3
  <2> QED
    BY <2>2, <2>3
<1>11. ASSUME NEW q \in Requests, q # r PROVE TxnSound(q)'
  <2>1. TxnSound(q) /\ txn'[q] = txn[q] /\ Locks(q)'
    BY <1>0, <1>11, EndFrees DEF IInv, TxnsSound
  <2>2. txn[q].kind = "admin" => AdminSound(q)'
    <3>1. Removes(txn[q].admin, txn[q].row)' => Removes(txn[q].admin, txn[q].row)
      BY <1>8, <2>1 DEF Removes, ActiveSupers
    <3>2. AnotherSuper(txn[q].admin) => AnotherSuper(txn[q].admin)'
      BY <1>8, <2>1 DEF AnotherSuper
    <3> QED
      BY <2>1, <3>1, <3>2 DEF TxnSound, AdminSound
  <2>3. IsChange(q) => SeenSound(q)'
    <3> SUFFICES ASSUME IsChange(q), NEW k \in DOMAIN txn[q].change
                 PROVE  /\ txn[q].seen[k].version <= version'[k]
                        /\ txn[q].seen[k].version = version'[k]
                              => txn[q].seen[k].value = value'[k]
      BY <2>1 DEF TxnSound, SeenSound
    <3>1. /\ k \in Settings /\ txn[q].seen[k].version \in Nat
          /\ txn[q].seen[k].version <= version[k]
          /\ txn[q].seen[k].version = version[k] => txn[q].seen[k].value = value[k]
      BY <2>1 DEF TxnSound, SeenSound
    <3>2. version[k] \in Nat
      BY <1>7, <3>1
    <3>3. CASE k \in C
      <4>1. version'[k] = version[k] + 1
        BY <1>2, <3>3
      <4> QED
        BY <3>1, <3>2, <4>1
    <3>4. CASE k \notin C
      BY <1>3, <3>1, <3>4
    <3> QED
      BY <3>3, <3>4
  <2>4. IsChange(q) => ReadySound(q)'
    <3> SUFFICES ASSUME IsChange(q), txn[q].stage = "ready" PROVE ReadySound(q)'
      BY <2>1 DEF ReadySound
    <3>1. /\ txn[q].admin \in Admins /\ holder[txn[q].admin] = q
          /\ \A k \in DOMAIN txn[q].change : holder[k] = q
      BY ReadyHolds DEF IsChange, Needs
    <3>2. txn[q].admin # b /\ \A k \in DOMAIN txn[q].change : k \in Settings \ C
      BY <1>1, <1>11, <2>1, <3>1 DEF TxnSound, SeenSound
    <3>3. ReadySound(q)
      BY <2>1 DEF TxnSound
    <3> QED
      BY <1>3, <1>8, <2>1, <3>1, <3>2, <3>3 DEF ReadySound
  <2> QED
    BY <2>1, <2>2, <2>3, <2>4 DEF TxnSound, IsChange
<1>12. HistoryChains'
  <2> DEFINE before(h, k, i) == IF i = 1 THEN First[k] ELSE h[i - 1].new
             Chain(h, k, n, v) ==
                 /\ n = Len(h) + 1 /\ v = before(h, k, n)
                 /\ \A i \in 1..Len(h) : /\ h[i].old = before(h, k, i)
                                         /\ h[i].seen = before(h, k, i)
  <2>1. ASSUME NEW k \in Settings PROVE Chain(history[k], k, version[k], value[k])
    BY <1>7 DEF IInv, HistoryChains
  <2>2. ASSUME NEW k \in C PROVE Chain(history'[k], k, version'[k], value'[k])
    <3> DEFINE e == [old |-> value[k], new |-> value'[k], seen |-> value[k]]
               h == history[k]
               g == history'[k]
    <3>1. e \in Entry /\ e.old = value[k] /\ e.seen = value[k] /\ e.new = value'[k]
      BY <1>1, <1>2, <1>6, <1>7 DEF Entry
    <3>2. g = Append(h, e) /\ h \in Seq(Entry)
      BY <1>1, <1>2, <1>7
    <3> HIDE DEF e, h, g
    <3>3. /\ Len(h) \in Nat /\ Len(g) = Len(h) + 1 /\ g[Len(h) + 1] = e
          /\ \A i \in 1..Len(h) : g[i] = h[i]
      BY <3>1, <3>2
    <3>4. Chain(h, k, version[k], value[k]) /\ version'[k] = version[k] + 1
      BY <1>1, <1>2, <2>1 DEF h
    <3>5. ASSUME NEW i \in 1..Len(h) + 1
          PROVE  before(g, k, i) = before(h, k, i)
      BY <3>3
    <3>6. before(g, k, Len(g) + 1) = value'[k]
      BY <3>1, <3>3
    <3>7. Chain(g, k, version'[k], value'[k])
      <4>1. version'[k] = Len(g) + 1 /\ value'[k] = before(g, k, version'[k])
        BY <3>3, <3>4, <3>6
      <4>2. e.old = before(h, k, Len(h) + 1) /\ e.seen = before(h, k, Len(h) + 1)
        BY <3>1, <3>4
      <4>3. ASSUME NEW i \in 1..Len(g)
            PROVE  g[i].old = before(g, k, i) /\ g[i].seen = before(g, k, i)
        <5>1. CASE i \in 1..Len(h)
          <6>1. g[i] = h[i] /\ before(g, k, i) = before(h, k, i)
            BY <3>3, <3>5, <5>1
          <6> QED
            BY <3>4, <5>1, <6>1
        <5>2. CASE i = Len(h) + 1
          <6>1. g[i] = e /\ before(g, k, i) = before(h, k, i)
            BY <3>3, <3>5, <5>2
          <6> QED
            BY <4>2, <5>2, <6>1
        <5> QED
          BY <3>3, <5>1, <5>2
      <4> QED
        BY <4>1, <4>3
    <3> QED
      BY <3>7 DEF g
  <2>3. ASSUME NEW k \in Settings PROVE Chain(history'[k], k, version'[k], value'[k])
    <3>1. CASE k \in C
      BY <2>2, <3>1
    <3>2. CASE k \notin C
      <4>1. history'[k] = history[k] /\ version'[k] = version[k] /\ value'[k] = value[k]
        BY <1>3, <3>2
      <4> QED
        BY <2>1, <4>1
    <3> QED
      BY <3>1, <3>2
  <2>4. ASSUME NEW k \in Settings PROVE DOMAIN history'[k] = 1..Len(history'[k])
    BY <1>9 DEF Typed
  <2>5. ASSUME NEW k \in Settings
        PROVE  LET earlier(i) == IF i = 1 THEN First[k] ELSE history'[k][i - 1].new
               IN  /\ version'[k] = Len(history'[k]) + 1
                   /\ value'[k] = earlier(version'[k])
                   /\ \A i \in DOMAIN history'[k] :
                         history'[k][i].old = earlier(i) /\ history'[k][i].seen = earlier(i)
    BY <2>3, <2>4
  <2> QED
    BY <2>5 DEF HistoryChains
<1>13. UsesCounted'
  <2> SUFFICES ASSUME NEW a \in Admins
               PROVE  admin'[a].uses = audit'[a] /\ audit'[a] <= MaxUses[a]
    BY DEF UsesCounted
  <2>1. admin[a].uses = audit[a] /\ audit[a] <= MaxUses[a]
    BY DEF IInv, UsesCounted
  <2> QED
    BY <1>5, <1>8, <2>1
<1>14. TxnsSound'
  BY <1>0, <1>11, EndFrees DEF TxnsSound
<1> QED
  BY <1>9, <1>10, <1>12, <1>13, <1>14 DEF IInv

----------------------------------------------------------------------------
LEMMA StutterKeeps == IInv /\ UNCHANGED vars => IInv'
<1> SUFFICES ASSUME IInv, UNCHANGED vars PROVE IInv'
  OBVIOUS
<1> USE DEF vars, settingVars
<1>1. Typed'
  BY DEF IInv, Typed, Shaped
<1>2. TxnsSound'
  <2>1. ASSUME NEW q \in Requests PROVE TxnSound(q)'
    <3>1. TxnSound(q)
      BY DEF IInv, TxnsSound
    <3> QED
      BY <3>1 DEF TxnSound, Locks, Needs, InPlan, IsChange, AdminSound, AnotherSuper, Removes,
                  ActiveSupers, SeenSound, ReadySound
  <2> QED
    BY <2>1 DEF TxnsSound
<1>3. InRange' /\ HistoryChains' /\ UsesCounted'
  BY DEF IInv, InRange, HistoryChains, UsesCounted
<1> QED
  BY <1>1, <1>2, <1>3 DEF IInv

LEMMA StepIInv == IInv /\ [Next]_vars => IInv'
<1> SUFFICES ASSUME IInv, [Next]_vars PROVE IInv'
  OBVIOUS
<1>1. ASSUME NEW r \in Requests, NEW a \in Admins, UNCHANGED settingVars,
             \/ BeginPanel(r, a)
             \/ BeginUpdateAdmin(r, a)
             \/ BeginBootstrap(r, a)
             \/ \E k \in Settings : BeginUpdate(r, a, k)
             \/ BeginProfile(r, a)
      PROVE  IInv'
  BY <1>1, BeginsKeep
<1>2. ASSUME NEW r \in Requests, Proceed(r) PROVE IInv'
  <2>1. CASE Take(r) /\ UNCHANGED settingVars
    BY <2>1, TakeKeeps
  <2>2. CASE \/ DecidePanel(r) /\ UNCHANGED settingVars
             \/ DecideUpdateAdmin(r) /\ UNCHANGED settingVars
             \/ DecideChange(r)
    BY <2>2, DecidesKeep
  <2>3. CASE CommitPanel(r) /\ UNCHANGED settingVars
    BY <2>3, EndKeeps DEF CommitPanel
  <2>4. CASE CommitUpdateAdmin(r) /\ UNCHANGED settingVars
    BY <2>4, UpdateAdminKeeps
  <2>5. CASE CommitChange(r)
    BY <2>5, ChangeKeeps
  <2> QED
    BY <1>2, <2>1, <2>2, <2>3, <2>4, <2>5 DEF Proceed
<1>3. ASSUME NEW r \in Requests, DeadlockEnds(r) \/ Fail(r), UNCHANGED settingVars PROVE IInv'
  BY <1>3, EndKeeps DEF DeadlockEnds, Fail
<1>4. ASSUME NEW a \in Admins, AdminEnds(a), UNCHANGED settingVars PROVE IInv'
  BY <1>4, AdminEndsKeeps
<1>5. CASE UNCHANGED vars
  BY <1>5, StutterKeeps
<1> QED
  BY <1>1, <1>2, <1>3, <1>4, <1>5 DEF Next

(* The inductive invariant holds in every reachable state.                  *)
THEOREM Invariant == Spec => []IInv
BY InitIInv, StepIInv, PTL DEF Spec

(* TypeOK: every variable has its type, and who is not in a transaction     *)
(* holds no lock.                                                           *)
THEOREM TypeCorrect == Spec => []TypeOK
<1>1. IInv => TypeOK
  <2> SUFFICES ASSUME IInv PROVE TypeOK
    OBVIOUS
  <2>1. ASSUME NEW r \in Requests
        PROVE  /\ txn[r].kind \in {"none", "panel", "admin", "update", "profile"}
               /\ txn[r].stage \in {"none", "locking", "ready"}
               /\ txn[r] = NoTxn => \A x \in Rows : holder[x] # r
    <3>1. Shaped(txn[r]) /\ TxnSound(r)
      BY DEF IInv, Typed, TxnsSound
    <3>2. NoTxn.kind = "none"
      BY DEF NoTxn
    <3> QED
      BY <3>1, <3>2 DEF Shaped, TxnSound, Locks
  <2>2. DOMAIN value = Settings /\ DOMAIN version = Settings
    BY DEF IInv, Typed
  <2> QED
    BY <2>1, <2>2 DEF IInv, Typed, InRange, TypeOK
<1> QED
  BY <1>1, Invariant, PTL

(* UsesCounted: each accepted change has taken a use of its own, and no     *)
(* administrator has had more changes than uses.                            *)
THEOREM UsesCountedHolds == Spec => []UsesCounted
<1>1. IInv => UsesCounted
  BY DEF IInv
<1> QED
  BY <1>1, Invariant, PTL

(* HistoryChains: no update of a setting is lost.                           *)
THEOREM HistoryChainsHolds == Spec => []HistoryChains
<1>1. IInv => HistoryChains
  BY DEF IInv
<1> QED
  BY <1>1, Invariant, PTL

----------------------------------------------------------------------------
(* Changes are the only steps that write settings or the audit log.         *)
LEMMA OthersKeepSettings ==
    [Next]_vars => UNCHANGED settingVars \/ \E r \in Requests : CommitChange(r)
BY DEF Next, Proceed, vars, DecideChange

LEMMA AdminSteps ==
    [Next]_vars => \/ UNCHANGED admin
                   \/ \E a \in Admins : AdminEnds(a)
                   \/ \E r \in Requests : CommitChange(r) \/ CommitUpdateAdmin(r)
BY DEF Next, Proceed, vars, BeginPanel, BeginUpdateAdmin, BeginBootstrap, BeginUpdate,
       BeginProfile, Begin, Take, DecidePanel, CommitPanel, DecideUpdateAdmin, DecideChange,
       DeadlockEnds, Fail

(* SuperAdminRemains: transactions never remove the last active super       *)
(* administrator; only time does.                                           *)
THEOREM SuperAdminRemainsHolds == Spec => SuperAdminRemains
<1> DEFINE Remains ==
        ActiveSupers # {} /\ ActiveSupers' = {}
            => \E a \in Admins : admin'[a].super /\ admin'[a].status = "active"
                                   /\ admin'[a].ends = "passed"
<1>1. IInv /\ [Next]_vars => Remains
  <2> SUFFICES ASSUME IInv, [Next]_vars, ActiveSupers # {}, ActiveSupers' = {}
               PROVE  \E a \in Admins : admin'[a].super /\ admin'[a].status = "active"
                                          /\ admin'[a].ends = "passed"
    OBVIOUS
  <2>1. PICK b \in Admins : admin[b].super /\ admin[b].status = "active"
    BY DEF ActiveSupers
  <2>2. ASSUME NEW a \in Admins, admin'[a].super, admin'[a].status = "active"
        PROVE  admin'[a].ends = "passed"
    BY <2>2 DEF ActiveSupers
  <2>3. CASE UNCHANGED admin
    BY <2>1, <2>2, <2>3
  <2>4. CASE \E a \in Admins : AdminEnds(a)
    <3>1. PICK a \in Admins : AdminEnds(a)
      BY <2>4
    <3>2. admin' = [admin EXCEPT ![a] = [admin[a] EXCEPT !.ends = "passed"]]
      BY <3>1 DEF AdminEnds
    <3>3. admin'[b].super = admin[b].super /\ admin'[b].status = admin[b].status
      BY <3>2 DEF IInv, Typed, Admin
    <3> QED
      BY <2>1, <2>2, <3>3
  <2>5. CASE \E r \in Requests : CommitChange(r)
    <3>1. PICK r \in Requests : CommitChange(r)
      BY <2>5
    <3> DEFINE uses == txn[r].row.uses
    <3>2. admin' = [admin EXCEPT ![txn[r].admin] = [admin[txn[r].admin] EXCEPT !.uses = uses]]
      BY <3>1 DEF CommitChange
    <3>3. admin'[b].super = admin[b].super /\ admin'[b].status = admin[b].status
      BY <3>2 DEF IInv, Typed, Admin
    <3> QED
      BY <2>1, <2>2, <3>3
  <2>6. CASE \E r \in Requests : CommitUpdateAdmin(r)
    <3>1. PICK r \in Requests : CommitUpdateAdmin(r)
      BY <2>6
    <3> DEFINE c == txn[r].admin
               row == txn[r].row
    <3>2. /\ txn[r].kind = "admin" /\ txn[r].stage = "ready" /\ TxnSound(r)
          /\ admin' = [admin EXCEPT ![c] = [row EXCEPT !.uses = admin[c].uses]]
      BY <3>1 DEF CommitUpdateAdmin, IInv, TxnsSound
    <3>3. c \in Admins /\ row \in Admin /\ (Removes(c, row) => AnotherSuper(c))
      BY <3>2 DEF TxnSound, Locks, AdminSound
    <3>4. \A a \in Admins : a # c => admin'[a] = admin[a]
      BY <3>2 DEF IInv, Typed
    <3>5. admin'[c].super = row.super /\ admin'[c].status = row.status
          /\ admin'[c].ends = row.ends
      BY <3>2, <3>3 DEF IInv, Typed, Admin
    <3>6. CASE AnotherSuper(c)
      BY <2>2, <3>4, <3>6 DEF AnotherSuper
    <3>7. CASE ~ Removes(c, row)
      <4>1. PICK s \in Admins : s \in ActiveSupers
        BY DEF ActiveSupers
      <4>2. CASE s = c
        <5>1. row.super /\ row.status = "active" /\ row.ends # "passed"
          BY <3>7, <4>1, <4>2 DEF Removes
        <5> QED
          BY <2>2, <3>3, <3>5, <5>1
      <4>3. CASE s # c
        BY <2>2, <3>4, <4>1, <4>3 DEF ActiveSupers
      <4> QED
        BY <4>2, <4>3
    <3> QED
      BY <3>3, <3>6, <3>7
  <2> QED
    BY <2>3, <2>4, <2>5, <2>6, AdminSteps
<1> QED
  BY <1>1, Invariant, PTL DEF Spec, SuperAdminRemains

----------------------------------------------------------------------------
(* Only a change that fits the settings as they are, of somebody who may    *)
(* make it, becomes ready.                                                  *)
LEMMA ReadyFits ==
    ASSUME IInv, [Next]_vars, NEW r \in Requests,
           txn'[r].kind \in {"update", "profile"}, txn'[r].stage = "ready"
    PROVE  /\ txn'[r].admin = txn[r].admin
           /\ \/ IsChange(r) /\ txn[r].stage = "ready"
              \/ InOrder(value) /\ MayChange(txn[r].admin) /\ UNCHANGED admin
<1>1. CASE txn'[r] = txn[r]
  BY <1>1 DEF IsChange
<1>2. ASSUME NEW q \in Requests, NEW kind, NEW plan, NEW a, NEW change, NEW seen, NEW row,
             Begin(q, kind, plan, a, change, seen, row)
      PROVE  txn'[r] = txn[r]
  <2>1. q # r => txn'[r] = txn[r]
    BY <1>2 DEF Begin, IInv, Typed
  <2>2. q = r => txn'[r].stage = "locking"
    BY <1>2 DEF Begin, IInv, Typed
  <2> QED
    BY <2>1, <2>2
<1>3. ASSUME NEW q \in Requests, Ends(q) PROVE txn'[r] = txn[r]
  <2>1. q # r => txn'[r] = txn[r]
    BY <1>3 DEF Ends, IInv, Typed
  <2>2. q = r => txn'[r].stage = "none"
    BY <1>3 DEF Ends, NoTxn, IInv, Typed
  <2> QED
    BY <2>1, <2>2
<1>4. ASSUME NEW q \in Requests, NEW accepted, NEW row, Decides(q, accepted, row)
      PROVE  \/ txn'[r] = txn[r]
             \/ /\ q = r /\ accepted
                /\ txn[r].kind = txn'[r].kind /\ txn[r].admin = txn'[r].admin
  <2>1. CASE Ends(q)
    BY <1>3, <2>1
  <2>2. CASE accepted /\ txn' = [txn EXCEPT ![q].stage = "ready", ![q].row = row]
    <3>1. q # r => txn'[r] = txn[r]
      BY <2>2 DEF IInv, Typed
    <3>2. q = r => txn'[r] = [txn[r] EXCEPT !.stage = "ready", !.row = row]
      BY <2>2 DEF IInv, Typed
    <3>3. /\ [txn[r] EXCEPT !.stage = "ready", !.row = row].kind = txn[r].kind
          /\ [txn[r] EXCEPT !.stage = "ready", !.row = row].admin = txn[r].admin
      <4>1. Shaped(txn[r])
        BY DEF IInv, Typed
      <4> QED
        BY <4>1 DEF Shaped
    <3> QED
      BY <2>2, <3>1, <3>2, <3>3
  <2> QED
    BY <1>4, <2>1, <2>2 DEF Decides
<1>5. ASSUME NEW q \in Requests, Take(q)
      PROVE  /\ txn'[r].kind = txn[r].kind /\ txn'[r].stage = txn[r].stage
             /\ txn'[r].admin = txn[r].admin
  <2>1. q # r => txn'[r] = txn[r]
    BY <1>5 DEF Take, IInv, Typed
  <2>2. q = r => txn'[r] = [txn[r] EXCEPT !.plan = Tail(txn[r].plan)]
    BY <1>5 DEF Take, IInv, Typed
  <2>3. Shaped(txn[r])
    BY DEF IInv, Typed
  <2> QED
    BY <2>1, <2>2, <2>3 DEF Shaped
<1>6. ASSUME NEW q \in Requests, DecideChange(q)
      PROVE  \/ txn'[r] = txn[r]
             \/ /\ InOrder(value) /\ MayChange(txn[r].admin) /\ UNCHANGED admin
                /\ txn'[r].admin = txn[r].admin
  BY <1>4, <1>6 DEF DecideChange, Fits
<1>7. ASSUME NEW q \in Requests, DecidePanel(q) \/ DecideUpdateAdmin(q)
      PROVE  txn'[r] = txn[r]
  BY <1>4, <1>7 DEF DecidePanel, DecideUpdateAdmin
<1>8. \/ txn' = txn
      \/ \E q \in Requests : Take(q) \/ Ends(q) \/ DecideChange(q)
                               \/ DecidePanel(q) \/ DecideUpdateAdmin(q)
      \/ \E q \in Requests, a \in Admins :
            BeginPanel(q, a) \/ BeginUpdateAdmin(q, a) \/ BeginBootstrap(q, a)
                \/ (\E k \in Settings : BeginUpdate(q, a, k)) \/ BeginProfile(q, a)
  BY DEF Next, Proceed, vars, CommitPanel, CommitUpdateAdmin, CommitChange, DeadlockEnds, Fail,
         AdminEnds
<1>9. CASE \E q \in Requests, a \in Admins :
              BeginPanel(q, a) \/ BeginUpdateAdmin(q, a) \/ BeginBootstrap(q, a)
                  \/ (\E k \in Settings : BeginUpdate(q, a, k)) \/ BeginProfile(q, a)
  BY <1>1, <1>2, <1>9
  DEF BeginPanel, BeginUpdateAdmin, BeginBootstrap, BeginUpdate, BeginProfile
<1> QED
  BY <1>1, <1>3, <1>5, <1>6, <1>7, <1>8, <1>9 DEF IsChange

(* OutOfOrderIsFinal: settings that are out of order, with no change on its *)
(* way, stay as they are.                                                   *)
THEOREM OutOfOrderIsFinalHolds == Spec => OutOfOrderIsFinal
<1>1. IInv /\ [Next]_vars => (Stuck => Stuck' /\ value' = value)
  <2> SUFFICES ASSUME IInv, [Next]_vars, Stuck PROVE Stuck' /\ value' = value
    OBVIOUS
  <2>1. value' = value
    BY OthersKeepSettings DEF Stuck, CommitChange, settingVars
  <2> QED
    BY <2>1, ReadyFits DEF Stuck, InOrder, IsChange
<1> QED
  BY <1>1, Invariant, PTL DEF Spec, OutOfOrderIsFinal

----------------------------------------------------------------------------
(* The order of rows.  All but profiles take settings before administrators *)
(* before the advisory lock; all but updates take administrators before the *)
(* settings of the profile, one by one, and before the advisory lock.       *)

IsKey(x) == \E i \in 1..Len(ProfileKeys) : ProfileKeys[i] = x
AdminsAfter == [x \in Rows |-> IF x \in Settings THEN 0 ELSE IF x \in Admins THEN 1 ELSE 2]
AdminsBefore ==
    [x \in Rows |-> IF IsKey(x) THEN CHOOSE i \in 1..Len(ProfileKeys) : ProfileKeys[i] = x
                    ELSE IF x = Advisory THEN 1 ELSE 0]

(* The rows that r locks and those it has still to lock rise in rank.       *)
Rises(own, plan, rank) ==
    \A i \in 1..Len(plan) :
        /\ \A j \in 1..Len(plan) : i < j => rank[plan[i]] < rank[plan[j]]
        /\ \A x \in own : rank[x] < rank[plan[i]]

Own(r) == {x \in Rows : holder[x] = r}
Climbs(r, rank) == Rises(Own(r), txn[r].plan, rank)

Climbing ==
    \A r \in Requests :
        /\ txn[r].kind # "profile" => Climbs(r, AdminsAfter)
        /\ txn[r].kind # "update" => Climbs(r, AdminsBefore)

LEMMA RanksAreNumbers ==
    AdminsAfter \in [Rows -> Nat] /\ AdminsBefore \in [Rows -> Nat]
BY DEF AdminsAfter, AdminsBefore, IsKey

LEMMA RanksOfRows ==
    /\ \A k \in Settings : AdminsAfter[k] = 0
    /\ \A a \in Admins : AdminsAfter[a] = 1 /\ AdminsBefore[a] = 0
    /\ AdminsAfter[Advisory] = 2 /\ AdminsBefore[Advisory] = 1
    /\ \A i \in 1..Len(ProfileKeys) :
          ProfileKeys[i] \in Settings /\ AdminsBefore[ProfileKeys[i]] = i
<1> USE AuthorizationAssumption, SettingsAssumption
<1>1. ProfileKeys \in Seq(Settings)
  OBVIOUS
<1>2. \A x \in Admins \union {Advisory} : ~ IsKey(x)
  BY <1>1 DEF IsKey
<1>3. \A i \in 1..Len(ProfileKeys) : ProfileKeys[i] \in Settings
  BY <1>1
<1>4. ASSUME NEW i \in 1..Len(ProfileKeys) PROVE AdminsBefore[ProfileKeys[i]] = i
  <2>1. \A j \in 1..Len(ProfileKeys) : ProfileKeys[j] = ProfileKeys[i] => j = i
    <3>1. DOMAIN ProfileKeys = 1..Len(ProfileKeys)
      BY <1>1
    <3> QED
      BY <3>1
  <2>2. (CHOOSE j \in 1..Len(ProfileKeys) : ProfileKeys[j] = ProfileKeys[i]) = i
    BY <2>1
  <2>3. IsKey(ProfileKeys[i]) /\ ProfileKeys[i] \in Rows
    BY <1>3 DEF IsKey, Rows
  <2> QED
    BY <2>2, <2>3 DEF AdminsBefore
<1>5. \A a \in Admins : AdminsBefore[a] = 0
  BY <1>2 DEF AdminsBefore, Rows
<1>6. AdminsBefore[Advisory] = 1
  BY <1>2 DEF AdminsBefore, Rows
<1>7. /\ \A k \in Settings : AdminsAfter[k] = 0
      /\ \A a \in Admins : AdminsAfter[a] = 1
      /\ AdminsAfter[Advisory] = 2
  BY DEF AdminsAfter, Rows
<1> QED
  BY <1>3, <1>4, <1>5, <1>6, <1>7

(* The plans with which transactions begin.                                 *)
PlanOf(kind, plan) ==
    \/ kind = "panel" /\ \E a \in Admins : plan = <<a>>
    \/ kind = "admin" /\ \E a \in Admins : plan = <<a, Advisory>>
    \/ kind = "update" /\ \E k \in Settings, a \in Admins : plan = <<k, a>>
    \/ kind = "profile" /\ \E a \in Admins : plan = <<a>> \o ProfileKeys

LEMMA PlansClimb ==
    ASSUME NEW kind, NEW plan, PlanOf(kind, plan)
    PROVE  /\ kind # "profile" => Rises({}, plan, AdminsAfter)
           /\ kind # "update" => Rises({}, plan, AdminsBefore)
<1>1. CASE \E a \in Admins : plan = <<a>>
  BY <1>1 DEF Rises
<1>2. CASE kind = "admin" /\ \E a \in Admins : plan = <<a, Advisory>>
  BY <1>2, RanksOfRows DEF Rises
<1>3. CASE kind = "update" /\ \E k \in Settings, a \in Admins : plan = <<k, a>>
  BY <1>3, RanksOfRows DEF Rises
<1>4. CASE kind = "profile" /\ \E a \in Admins : plan = <<a>> \o ProfileKeys
  <2> PICK a \in Admins : plan = <<a>> \o ProfileKeys
    BY <1>4
  <2>1. /\ Len(plan) = Len(ProfileKeys) + 1 /\ Len(ProfileKeys) \in Nat
        /\ \A i \in 1..Len(plan) : plan[i] = IF i = 1 THEN a ELSE ProfileKeys[i - 1]
    BY SettingsAssumption
  <2>2. \A i \in 1..Len(plan) : AdminsBefore[plan[i]] = i - 1
    <3> TAKE i \in 1..Len(plan)
    <3>1. CASE i = 1
      BY <2>1, <3>1, RanksOfRows
    <3>2. CASE i # 1
      <4>1. i - 1 \in 1..Len(ProfileKeys)
        BY <2>1, <3>2
      <4> QED
        BY <2>1, <3>2, <4>1, RanksOfRows
    <3> QED
      BY <3>1, <3>2
  <2> QED
    BY <1>4, <2>1, <2>2 DEF Rises
<1> QED
  BY <1>1, <1>2, <1>3, <1>4 DEF PlanOf

(* What a step does to the locks and the plan of a transaction.             *)
LEMMA LockSteps ==
    ASSUME IInv, [Next]_vars, NEW r \in Requests
    PROVE  \/ /\ txn'[r].plan = txn[r].plan /\ txn'[r].kind = txn[r].kind
              /\ \A x \in Rows : holder'[x] = r => holder[x] = r
           \/ txn'[r].plan = << >>
           \/ Take(r)
           \/ PlanOf(txn'[r].kind, txn'[r].plan) /\ \A x \in Rows : holder'[x] # r
<1> USE AuthorizationAssumption
<1>1. /\ holder \in [Rows -> Requests \union {None}]
      /\ txn = [q \in Requests |-> txn[q]]
      /\ \A q \in Requests : txn[q] = NoTxn => \A x \in Rows : holder[x] # q
  BY DEF IInv, Typed, TxnsSound, TxnSound, Locks, NoTxn
<1>2. ASSUME NEW q \in Requests, Ends(q)
      PROVE  \/ txn'[r].plan = << >>
             \/ txn'[r] = txn[r] /\ \A x \in Rows : holder'[x] = r => holder[x] = r
  BY <1>1, <1>2 DEF Ends, Unlocked, NoTxn
<1>3. ASSUME NEW q \in Requests, Take(q)
      PROVE  \/ Take(r)
             \/ txn'[r] = txn[r] /\ \A x \in Rows : holder'[x] = r => holder[x] = r
  <2>1. CASE q = r
    BY <1>3, <2>1
  <2>2. CASE q # r
    BY <1>1, <1>3, <2>2 DEF Take
  <2> QED
    BY <2>1, <2>2
<1>4. ASSUME NEW q \in Requests, NEW accepted, NEW row, Decides(q, accepted, row)
      PROVE  \/ txn'[r].plan = << >>
             \/ txn'[r] = txn[r] /\ \A x \in Rows : holder'[x] = r => holder[x] = r
  <2>1. CASE Ends(q)
    BY <1>2, <2>1
  <2>2. CASE /\ txn[q].plan = << >> /\ UNCHANGED holder
             /\ txn' = [txn EXCEPT ![q].stage = "ready", ![q].row = row]
    <3>1. q # r => txn'[r] = txn[r]
      BY <1>1, <2>2
    <3>2. Shaped(txn[q])
      BY DEF IInv, Typed
    <3>3. q = r => txn'[r] = [txn[r] EXCEPT !.stage = "ready", !.row = row]
      BY <1>1, <2>2
    <3>4. q = r => txn'[r].plan = txn[r].plan
      BY <3>2, <3>3 DEF Shaped
    <3> QED
      BY <2>2, <3>1, <3>4
  <2> QED
    BY <1>4, <2>1, <2>2 DEF Decides
<1>5. ASSUME NEW q \in Requests, NEW kind, NEW plan, NEW a, NEW change, NEW seen, NEW row,
             Begin(q, kind, plan, a, change, seen, row), PlanOf(kind, plan)
      PROVE  \/ txn'[r] = txn[r] /\ \A x \in Rows : holder'[x] = r => holder[x] = r
             \/ PlanOf(txn'[r].kind, txn'[r].plan) /\ \A x \in Rows : holder'[x] # r
  <2>1. CASE q = r
    BY <1>1, <1>5, <2>1 DEF Begin
  <2>2. CASE q # r
    BY <1>1, <1>5, <2>2 DEF Begin
  <2> QED
    BY <2>1, <2>2
<1>6. CASE \/ \E q \in Requests, a \in Admins : BeginPanel(q, a)
           \/ \E q \in Requests, a \in Admins : BeginUpdateAdmin(q, a)
           \/ \E q \in Requests, a \in Admins : BeginBootstrap(q, a)
  BY <1>5, <1>6 DEF BeginPanel, BeginUpdateAdmin, BeginBootstrap, TriggerPlan, PlanOf
<1>7. CASE \/ \E q \in Requests, a \in Admins, k \in Settings : BeginUpdate(q, a, k)
           \/ \E q \in Requests, a \in Admins : BeginProfile(q, a)
  BY <1>5, <1>7 DEF BeginUpdate, BeginProfile, UpdatePlan, PlanOf
<1>8. CASE \E q \in Requests : Proceed(q)
  <2> PICK q \in Requests : Proceed(q)
    BY <1>8
  <2>1. CASE Take(q)
    BY <1>3, <2>1
  <2>2. CASE DecidePanel(q) \/ DecideUpdateAdmin(q) \/ DecideChange(q)
    <3>1. PICK accepted, row : Decides(q, accepted, row)
      BY <2>2 DEF DecidePanel, DecideUpdateAdmin, DecideChange
    <3> QED
      BY <1>4, <3>1
  <2>3. CASE CommitPanel(q) \/ CommitUpdateAdmin(q) \/ CommitChange(q)
    <3>1. Ends(q)
      BY <2>3 DEF CommitPanel, CommitUpdateAdmin, CommitChange
    <3> QED
      BY <1>2, <3>1
  <2> QED
    BY <2>1, <2>2, <2>3 DEF Proceed
<1>9. CASE \E q \in Requests : DeadlockEnds(q) \/ Fail(q)
  BY <1>2, <1>9 DEF DeadlockEnds, Fail
<1>10. CASE UNCHANGED <<holder, txn>>
  BY <1>10
<1> QED
  BY <1>6, <1>7, <1>8, <1>9, <1>10 DEF Next, vars, AdminEnds

LEMMA TakeClimbs ==
    ASSUME IInv, NEW r \in Requests, Take(r), NEW rank \in [Rows -> Nat], Climbs(r, rank)
    PROVE  Climbs(r, rank)'
<1> DEFINE p == txn[r].plan
<1>1. p \in Seq(Rows) /\ p # << >>
  BY DEF IInv, Typed, Shaped, Take
<1>2. /\ Len(Tail(p)) = Len(p) - 1 /\ Len(p) \in Nat /\ p[1] \in Rows
      /\ \A i \in 1..Len(Tail(p)) : Tail(p)[i] = p[i + 1] /\ i + 1 \in 1..Len(p)
      /\ 1 \in 1..Len(p) /\ Head(p) = p[1]
  BY <1>1
<1>3. txn'[r].plan = Tail(p) /\ \A x \in Rows : holder'[x] = r => holder[x] = r \/ x = p[1]
  <2>1. txn'[r] = [txn[r] EXCEPT !.plan = Tail(@)] /\ Shaped(txn[r])
    BY DEF Take, IInv, Typed
  <2>2. txn'[r].plan = Tail(p)
    BY <2>1 DEF Shaped
  <2> QED
    BY <1>2, <2>2 DEF Take, IInv, Typed
<1> HIDE DEF p
<1>4. Rises(Own(r), p, rank)
  BY DEF Climbs, p
<1>5. ASSUME NEW i \in 1..Len(Tail(p))
      PROVE  /\ \A j \in 1..Len(Tail(p)) : i < j => rank[Tail(p)[i]] < rank[Tail(p)[j]]
             /\ \A x \in Own(r)' : rank[x] < rank[Tail(p)[i]]
  <2>1. i + 1 \in 1..Len(p) /\ Tail(p)[i] = p[i + 1] /\ 1 < i + 1 /\ 1 \in 1..Len(p)
    BY <1>2
  <2>2. ASSUME NEW j \in 1..Len(Tail(p)), i < j PROVE rank[Tail(p)[i]] < rank[Tail(p)[j]]
    <3>1. j + 1 \in 1..Len(p) /\ Tail(p)[j] = p[j + 1] /\ i + 1 < j + 1
      BY <1>2, <2>2
    <3> QED
      BY <1>4, <2>1, <3>1 DEF Rises
  <2>3. rank[p[1]] < rank[p[i + 1]]
    BY <1>4, <2>1 DEF Rises
  <2>4. ASSUME NEW x \in Own(r) PROVE rank[x] < rank[p[i + 1]]
    BY <1>4, <2>1, <2>4 DEF Rises
  <2>5. \A x \in Own(r)' : x \in Own(r) \/ x = p[1]
    BY <1>3 DEF Own, Rows
  <2> QED
    BY <2>1, <2>2, <2>3, <2>4, <2>5
<1> QED
  BY <1>3, <1>5 DEF Climbs, Rises

LEMMA StepKeepsClimbing == IInv /\ Climbing /\ [Next]_vars => Climbing'
<1> SUFFICES ASSUME IInv, Climbing, [Next]_vars, NEW r \in Requests
             PROVE  /\ txn'[r].kind # "profile" => Climbs(r, AdminsAfter)'
                    /\ txn'[r].kind # "update" => Climbs(r, AdminsBefore)'
  BY DEF Climbing, AdminsAfter, AdminsBefore
<1>1. /\ txn[r].kind # "profile" => Climbs(r, AdminsAfter)
      /\ txn[r].kind # "update" => Climbs(r, AdminsBefore)
  BY DEF Climbing
<1>2. CASE /\ txn'[r].plan = txn[r].plan /\ txn'[r].kind = txn[r].kind
           /\ \A x \in Rows : holder'[x] = r => holder[x] = r
  <2>1. Own(r)' \subseteq Own(r)
    BY <1>2 DEF Own, Rows
  <2> QED
    BY <1>1, <1>2, <2>1 DEF Climbs, Rises, AdminsAfter, AdminsBefore, IsKey, Rows
<1>3. CASE txn'[r].plan = << >>
  BY <1>3 DEF Climbs, Rises
<1>4. CASE Take(r)
  <2>1. txn'[r].kind = txn[r].kind
    BY <1>4 DEF Take, IInv, Typed, Shaped
  <2> QED
    BY <1>1, <1>4, <2>1, TakeClimbs, RanksAreNumbers
<1>5. CASE PlanOf(txn'[r].kind, txn'[r].plan) /\ \A x \in Rows : holder'[x] # r
  <2>1. Own(r)' = {}
    BY <1>5 DEF Own, Rows
  <2>2. /\ txn'[r].kind # "profile" => Rises({}, txn'[r].plan, AdminsAfter)
        /\ txn'[r].kind # "update" => Rises({}, txn'[r].plan, AdminsBefore)
    BY <1>5, PlansClimb
  <2> QED
    BY <2>1, <2>2 DEF Climbs, Rises
<1> QED
  BY <1>2, <1>3, <1>4, <1>5, LockSteps

LEMMA ClimbingHolds == Spec => []Climbing
<1>1. Init => Climbing
  BY DEF Init, NoTxn, Climbing, Climbs, Rises
<1> QED
  BY <1>1, StepKeepsClimbing, Invariant, PTL DEF Spec

(* In a circle whoever waits for the lowest row blocks somebody else at a   *)
(* lower one.                                                               *)
LEMMA CircleFalls ==
    ASSUME IInv, NEW circle \in SUBSET Requests, circle # {},
           {Blocker(q) : q \in circle} = circle,
           NEW rank \in [Rows -> Nat], \A q \in circle : Climbs(q, rank)
    PROVE  FALSE
<1> DEFINE row(q) == Head(txn[q].plan)
<1>1. ASSUME NEW q \in circle
      PROVE  /\ row(q) \in Rows /\ 1 \in 1..Len(txn[q].plan) /\ row(q) = txn[q].plan[1]
             /\ holder[row(q)] \in circle /\ holder[row(q)] = Blocker(q)
  <2>1. Blocker(q) \in circle /\ Blocker(q) # None
    BY AuthorizationAssumption
  <2>2. txn[q].plan \in Seq(Rows) /\ txn[q].plan # << >> /\ Blocker(q) = holder[row(q)]
    BY <2>1 DEF Blocker, IInv, Typed, Shaped
  <2> QED
    BY <2>1, <2>2
<1> DEFINE N == {rank[row(q)] : q \in circle}
<1>2. N \subseteq Nat /\ N # {}
  BY <1>1
<1>3. PICK n \in N : \A m \in N : n <= m
  <2> HIDE DEF N
  <2> QED
    BY <1>2, LeastNatural
<1>4. PICK q \in circle : n = rank[row(q)]
  OBVIOUS
<1>5. PICK p \in circle : Blocker(p) = q
  OBVIOUS
<1>6. rank[row(p)] < rank[row(q)]
  <2>1. row(p) \in Rows /\ holder[row(p)] = q
    BY <1>1, <1>5
  <2>2. 1 \in 1..Len(txn[q].plan) /\ row(q) = txn[q].plan[1]
    BY <1>1
  <2> HIDE DEF row
  <2> QED
    BY <2>1, <2>2 DEF Climbs, Rises, Own
<1>7. rank[row(p)] \in N /\ rank[row(p)] \in Nat /\ n \in Nat
  BY <1>1, <1>2
<1>8. n <= rank[row(p)] /\ rank[row(p)] < n
  <2> HIDE DEF row, N
  <2> QED
    BY <1>3, <1>4, <1>6, <1>7
<1> HIDE DEF row, N
<1> QED
  BY <1>7, <1>8

(* DeadlocksMixChanges: transactions of all kinds but one take their rows   *)
(* in one order, for any settings, profile and number of transactions.      *)
THEOREM DeadlocksMixChangesHolds == Spec => []DeadlocksMixChanges
<1>1. IInv /\ Climbing => DeadlocksMixChanges
  <2> SUFFICES ASSUME IInv, Climbing, NEW circle \in SUBSET Requests, circle # {},
                      {Blocker(q) : q \in circle} = circle
               PROVE  {"update", "profile"} \subseteq {txn[q].kind : q \in circle}
    BY DEF DeadlocksMixChanges
  <2>1. ASSUME \A q \in circle : txn[q].kind # "update" PROVE FALSE
    BY <2>1, CircleFalls, RanksAreNumbers DEF Climbing
  <2>2. ASSUME \A q \in circle : txn[q].kind # "profile" PROVE FALSE
    BY <2>2, CircleFalls, RanksAreNumbers DEF Climbing
  <2> QED
    BY <2>1, <2>2
<1> QED
  BY <1>1, ClimbingHolds, Invariant, PTL

----------------------------------------------------------------------------
(* The contract.                                                            *)

(* Who has a change ready has kept the permission since it was checked.     *)
Trustworthy(a) ==
    /\ a \notin Denied \union ReadOnly
    /\ a \in Granted \union RoleAllows \/ admin[a].super

ReadyTrusted ==
    \A r \in Requests : IsChange(r) /\ txn[r].stage = "ready" => Trustworthy(txn[r].admin)

(* What the commit of an administrator's row does.                          *)
LEMMA AppointEffects ==
    ASSUME IInv, NEW r \in Requests, CommitUpdateAdmin(r), NEW b, b = txn[r].admin
    PROVE  /\ b \in Admins /\ holder[b] = r /\ txn'[r] = NoTxn
           /\ \A a \in Admins : a # b => admin'[a] = admin[a]
           /\ admin'[b].uses = admin[b].uses
           /\ admin'[b].super = txn[r].row.super /\ admin'[b].status = txn[r].row.status
           /\ admin'[b].ends = txn[r].row.ends
           /\ Removes(b, txn[r].row) => AnotherSuper(b)
<1>1. /\ txn[r].kind = "admin" /\ txn[r].stage = "ready" /\ TxnSound(r) /\ Ends(r)
      /\ admin' = [admin EXCEPT ![b] = [txn[r].row EXCEPT !.uses = admin[b].uses]]
  BY DEF CommitUpdateAdmin, IInv, TxnsSound
<1>2. txn[r].row \in Admin /\ (Removes(b, txn[r].row) => AnotherSuper(b))
  BY <1>1 DEF TxnSound, AdminSound
<1>3. b \in Admins /\ holder[b] = r
  BY <1>1, ReadyHolds DEF Needs
<1>4. txn'[r] = NoTxn
  BY <1>1, EndFrees
<1>5. \A a \in Admins : a # b => admin'[a] = admin[a]
  BY <1>1 DEF IInv, Typed
<1>6. /\ admin'[b].uses = admin[b].uses
      /\ admin'[b].super = txn[r].row.super /\ admin'[b].status = txn[r].row.status
      /\ admin'[b].ends = txn[r].row.ends
  BY <1>1, <1>2, <1>3 DEF IInv, Typed, Admin
<1> QED
  BY <1>2, <1>3, <1>4, <1>5, <1>6

(* Nobody is demoted between the check and the commit of a change.          *)
LEMMA ReadyTrustedKept == IInv /\ ReadyTrusted /\ [Next]_vars => ReadyTrusted'
<1> SUFFICES ASSUME IInv, ReadyTrusted, [Next]_vars, NEW r \in Requests,
                    txn'[r].kind \in {"update", "profile"}, txn'[r].stage = "ready"
             PROVE  Trustworthy(txn[r].admin)' /\ txn'[r].admin = txn[r].admin
  BY DEF ReadyTrusted, IsChange, Trustworthy
<1> DEFINE a == txn[r].admin
<1>1. txn'[r].admin = a
  BY ReadyFits
<1>2. CASE MayChange(a) /\ UNCHANGED <<admin>>
  BY <1>1, <1>2 DEF MayChange, Permitted, Trustworthy
<1>3. CASE IsChange(r) /\ txn[r].stage = "ready"
  <2>1. Trustworthy(a) /\ a \in Admins /\ holder[a] = r
    BY <1>3, ReadyHolds DEF ReadyTrusted, IsChange, Needs
  <2>2. admin'[a].super = admin[a].super
    <3>1. CASE UNCHANGED admin
      BY <3>1
    <3>2. ASSUME NEW b \in Admins, AdminEnds(b) PROVE admin'[a].super = admin[a].super
      BY <2>1, <3>2 DEF AdminEnds, IInv, Typed, Admin
    <3>3. ASSUME NEW q \in Requests, CommitChange(q) PROVE admin'[a].super = admin[a].super
      <4> DEFINE uses == txn[q].row.uses
                 b == txn[q].admin
      <4>1. admin' = [admin EXCEPT ![b] = [admin[b] EXCEPT !.uses = uses]]
        BY <3>3 DEF CommitChange
      <4> QED
        BY <2>1, <4>1 DEF IInv, Typed, Admin
    <3>4. ASSUME NEW q \in Requests, CommitUpdateAdmin(q)
          PROVE  admin'[a].super = admin[a].super
      <4>1. /\ holder[txn[q].admin] = q /\ txn'[q] = NoTxn
            /\ \A c \in Admins : c # txn[q].admin => admin'[c] = admin[c]
        BY <3>4, AppointEffects
      <4>2. q # r
        BY <4>1 DEF NoTxn
      <4> QED
        BY <2>1, <4>1, <4>2
    <3> QED
      BY <3>1, <3>2, <3>3, <3>4, AdminSteps
  <2> QED
    BY <1>1, <2>1, <2>2 DEF Trustworthy
<1> QED
  BY <1>1, <1>2, <1>3, ReadyFits

LEMMA ReadyTrustedHolds == Spec => []ReadyTrusted
<1>1. Init => ReadyTrusted
  BY DEF Init, ReadyTrusted, IsChange, NoTxn
<1> QED
  BY <1>1, ReadyTrustedKept, Invariant, PTL DEF Spec

LEMMA ContractInitially == Init => Contract!ContractInit
BY DEF Init, Contract!ContractInit

(* A commit is a step of the contract, everything before it is none.        *)
LEMMA ContractStep ==
    ASSUME IInv, ReadyTrusted, [Next]_vars
    PROVE  [Contract!ContractNext]_<<admin, value, history>>
<1>1. ASSUME NEW r \in Requests, CommitChange(r) PROVE Contract!ContractNext
  <2> DEFINE C == DOMAIN txn[r].change
             b == txn[r].admin
             uses == txn[r].row.uses
  <2>1. Effects(r, C, b)
    BY <1>1, ChangeEffects
  <2>2. /\ IsChange(r) /\ txn[r].stage = "ready" /\ ReadySound(r)
        /\ admin' = [admin EXCEPT ![b].uses = uses]
    BY <1>1 DEF CommitChange, IInv, TxnsSound, TxnSound, IsChange
  <2>3. uses = admin[b].uses + 1 /\ uses <= MaxUses[b] /\ admin[b].status = "active"
    BY <2>2 DEF ReadySound
  <2>4. b \in Admins /\ admin[b].uses \in Nat /\ MaxUses[b] \in Nat
    BY <2>1, AuthorizationAssumption DEF Effects, IInv, Typed, Admin
  <2>5. Contract!May(b)
    <3>1. Trustworthy(b)
      BY <2>2 DEF ReadyTrusted
    <3>2. admin[b].uses < MaxUses[b]
      BY <2>3, <2>4
    <3> QED
      BY <2>3, <3>1, <3>2 DEF Contract!May, Trustworthy
  <2>6. admin' = [admin EXCEPT ![b].uses = admin[b].uses + 1]
    BY <2>2, <2>3
  <2>7. ASSUME NEW k \in Settings
        PROVE  Contract!Replace(k) \/ (value'[k] = value[k] /\ history'[k] = history[k])
    BY <2>1 DEF Effects, Contract!Replace
  <2> HIDE DEF b
  <2>8. Contract!Change(b)
    BY <2>5, <2>6, <2>7 DEF Contract!Change
  <2> QED
    BY <2>4, <2>8 DEF Contract!ContractNext
<1>2. ASSUME NEW r \in Requests, CommitUpdateAdmin(r), UNCHANGED settingVars
      PROVE  Contract!ContractNext
  <2> DEFINE row == txn[r].row
  <2>0. PICK b : b = txn[r].admin
    OBVIOUS
  <2>1. /\ b \in Admins
        /\ \A a \in Admins : a # b => admin'[a] = admin[a]
        /\ admin'[b].uses = admin[b].uses
        /\ admin'[b].super = row.super /\ admin'[b].status = row.status
        /\ admin'[b].ends = row.ends
        /\ Removes(b, row) => AnotherSuper(b)
    BY <1>2, <2>0, AppointEffects
  <2> HIDE DEF row
  <2>2. Contract!Loses(b) => \E a \in Admins \ {b} : Contract!IsSuper(a)
    <3>1. ASSUME Contract!Loses(b) PROVE Removes(b, row)
      <4>1. b \in ActiveSupers
        BY <2>1, <3>1 DEF Contract!Loses, Contract!IsSuper, ActiveSupers
      <4>2. ~ (Contract!IsSuper(b)' /\ admin'[b].ends # "passed")
        BY <3>1 DEF Contract!Loses
      <4>3. ~ (row.super /\ row.status = "active" /\ row.ends # "passed")
        BY <2>1, <4>2 DEF Contract!IsSuper
      <4> QED
        BY <4>1, <4>3 DEF Removes
    <3> QED
      BY <2>1, <3>1 DEF AnotherSuper, Contract!IsSuper
  <2>3. Contract!Appoint(b)
    BY <1>2, <2>0, <2>1, <2>2 DEF Contract!Appoint, settingVars
  <2> QED
    BY <2>1, <2>3 DEF Contract!ContractNext
<1>3. ASSUME NEW b \in Admins, AdminEnds(b), UNCHANGED settingVars PROVE Contract!ContractNext
  BY <1>3 DEF AdminEnds, settingVars, Contract!TimeIsUp, Contract!ContractNext
<1>4. \/ UNCHANGED <<admin, settingVars>>
      \/ \E r \in Requests : CommitChange(r)
      \/ \E r \in Requests : CommitUpdateAdmin(r) /\ UNCHANGED settingVars
      \/ \E a \in Admins : AdminEnds(a) /\ UNCHANGED settingVars
  BY AdminSteps, OthersKeepSettings
<1> QED
  BY <1>1, <1>2, <1>3, <1>4 DEF settingVars

(* KeepsSettingsContract: whatever transactions of administrators do at the *)
(* same time, changes take effect one at a time, by somebody who may make   *)
(* them, over the values that were seen.                                    *)
THEOREM KeepsSettingsContractHolds == Spec => KeepsSettingsContract
<1>1. IInv /\ ReadyTrusted /\ [Next]_vars => [Contract!ContractNext]_Contract!contract
  BY ContractStep DEF Contract!contract
<1> QED
  BY <1>1, ContractInitially, Invariant, ReadyTrustedHolds, PTL
  DEF Spec, KeepsSettingsContract, Contract!ContractSpec

===========================================================================
