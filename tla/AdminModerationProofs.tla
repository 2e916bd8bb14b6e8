----------------------- MODULE AdminModerationProofs -----------------------
(* AdminModeration implements the audit ledger for any number of users and
   concurrent requests, and so keeps the ledger's promises.  Requests one at a
   time never lose the last manager, and requests at once never all wait. *)
EXTENDS AdminModeration, SequenceTheorems, FiniteSetTheorems, TLAPS

(* The ledger is a sequence; of what, does not matter. *)
IsLedger == \E S : logs \in Seq(S)

(* Append adds one element at the end and moves none. *)
LEMMA AppendFacts ==
    ASSUME NEW S, NEW l \in Seq(S), NEW e
    PROVE  /\ Len(l) \in Nat
           /\ Append(l, e) \in Seq(S \cup {e})
           /\ Len(Append(l, e)) = Len(l) + 1
           /\ Append(l, e)[Len(l) + 1] = e
           /\ \A i \in 1..Len(l) : Append(l, e)[i] = l[i]
<1> DEFINE T == S \cup {e}
<1>1. l \in Seq(T)
  BY SeqMonotonic, S \subseteq T
<1>2. e \in T
  OBVIOUS
<1> HIDE DEF T
<1>3. Len(l) \in Nat /\ Append(l, e) \in Seq(T)
  BY <1>1, <1>2
<1>4. Len(Append(l, e)) = Len(l) + 1 /\ Append(l, e)[Len(l) + 1] = e
  BY <1>1, <1>2
<1>5. \A i \in 1..Len(l) : Append(l, e)[i] = l[i]
  BY <1>1, <1>2
<1> QED
  BY <1>3, <1>4, <1>5 DEF T

(* What the first n entries say does not change when the ledger grows. *)
LEMMA SaysIsStable ==
    ASSUME NEW S, NEW l \in Seq(S), NEW e, NEW o,
           NEW n \in 0..Len(l), NEW u, NEW f, NEW v
    PROVE  Ledger!Says(o, Append(l, e), n, u, f, v) <=> Ledger!Says(o, l, n, u, f, v)
<1> DEFINE m == Append(l, e)
<1>1. \A i \in 1..n : m[i] = l[i] /\ i \in Nat
  BY AppendFacts
<1>2. \A i \in 1..n : Ledger!Touches(m, i, u, f) <=> Ledger!Touches(l, i, u, f)
  BY <1>1 DEF Ledger!Touches
<1>3. \A i \in 1..n : \A j \in (i + 1)..n : j \in 1..n
  BY AppendFacts
<1> HIDE DEF m
<1>4. Ledger!Says(o, m, n, u, f, v) <=> Ledger!Says(o, l, n, u, f, v)
  BY <1>1, <1>2, <1>3, Zenon DEF Ledger!Says
<1> QED
  BY <1>4 DEF m

(* An entitlement read from the first n entries survives later entries. *)
LEMMA EntitlementIsStable ==
    ASSUME NEW S, NEW l \in Seq(S), NEW e, NEW o,
           NEW n \in 0..Len(l), NEW u,
           Ledger!EntitledBy(o, l, n, u)
    PROVE  Ledger!EntitledBy(o, Append(l, e), n, u)
  BY SaysIsStable DEF Ledger!EntitledBy

(* The entry appended last decides what the ledger says of the columns it
   touches and leaves the others as they were. *)
LEMMA SaysAfterAppend ==
    ASSUME NEW S, NEW l \in Seq(S), NEW e, NEW o, NEW u, NEW f
    PROVE  /\ (e.target = u /\ f \in DOMAIN e.after)
                => Ledger!Says(o, Append(l, e), Len(l) + 1, u, f, e.after[f])
           /\ \A v : ~(e.target = u /\ f \in DOMAIN e.after)
                     /\ Ledger!Says(o, l, Len(l), u, f, v)
                     => Ledger!Says(o, Append(l, e), Len(l) + 1, u, f, v)
<1> DEFINE m == Append(l, e)
           k == Len(l)
<1>1. k \in Nat /\ m[k + 1] = e
  BY AppendFacts
<1>2. Ledger!Touches(m, k + 1, u, f) <=> (e.target = u /\ f \in DOMAIN e.after)
  BY <1>1 DEF Ledger!Touches
<1>3. CASE e.target = u /\ f \in DOMAIN e.after
  <2>1. k + 1 \in 1..(k + 1) /\ (k + 1 + 1)..(k + 1) = {}
    BY <1>1
  <2>2. Ledger!Says(o, m, k + 1, u, f, e.after[f])
    BY <2>1, <1>1, <1>2, <1>3, Zenon DEF Ledger!Says
  <2> QED
    BY <2>2, <1>3
<1>4. CASE ~(e.target = u /\ f \in DOMAIN e.after)
  <2> SUFFICES ASSUME NEW v, Ledger!Says(o, l, k, u, f, v)
               PROVE  Ledger!Says(o, m, k + 1, u, f, v)
    BY <1>4
  <2>1. Ledger!Says(o, m, k, u, f, v)
    BY SaysIsStable, <1>1
  <2>2. 1..(k + 1) = 1..k \cup {k + 1}
    BY <1>1
  <2>3. \A i \in 1..k : (i + 1)..(k + 1) = (i + 1)..k \cup {k + 1}
    BY <1>1
  <2>4. ~Ledger!Touches(m, k + 1, u, f)
    BY <1>2, <1>4
  <2> HIDE DEF m, k
  <2> QED
    BY <2>1, <2>2, <2>3, <2>4 DEF Ledger!Says
<1> QED
  BY <1>3, <1>4

(* The inductive invariant: the three promises need only that the ledger is a
   sequence, since each entry is judged by the entries before it. *)
LedgerInv ==
    /\ IsLedger
    /\ Ledger!LedgerExplainsValues
    /\ Ledger!LedgerIsChained
    /\ Ledger!AuthorityIsGranted

LEMMA InitEstablishesLedgerInv == Ledger!Init => LedgerInv
<1> SUFFICES ASSUME Ledger!Init PROVE LedgerInv
  OBVIOUS
<1>1. logs \in Seq({}) /\ Len(logs) = 0 /\ 1..Len(logs) = {}
  BY DEF Ledger!Init
<1>2. Ledger!LedgerExplainsValues
  BY <1>1 DEF Ledger!Init, Ledger!LedgerExplainsValues, Ledger!Says
<1>3. Ledger!LedgerIsChained /\ Ledger!AuthorityIsGranted
  BY <1>1 DEF Ledger!LedgerIsChained, Ledger!AuthorityIsGranted
<1> QED
  BY <1>1, <1>2, <1>3 DEF LedgerInv, IsLedger

LEMMA RecordPreservesLedgerInv == LedgerInv /\ Ledger!Record => LedgerInv'
<1> SUFFICES ASSUME LedgerInv, Ledger!Record PROVE LedgerInv'
  OBVIOUS
<1>1. PICK S : logs \in Seq(S)
  BY DEF LedgerInv, IsLedger
<1>2. PICK who \in Users, whom \in Users, C \in SUBSET Fields :
        /\ who # whom
        /\ \E action \in {"user.permissions.update", "user.suspension.update",
                          "user.ban.update"} :
              logs' = Append(logs,
                 [actor  |-> who,
                  action |-> action,
                  target |-> whom,
                  before |-> [f \in C |-> users[whom][f]],
                  after  |-> [f \in C |-> users'[whom][f]]])
        /\ \E n \in 0..Len(logs) : Ledger!EntitledBy(origin, logs, n, who)
        /\ \A u \in Users, f \in Fields :
              (u # whom \/ f \notin C) => users'[u][f] = users[u][f]
        /\ UNCHANGED origin
  BY DEF Ledger!Record
<1>3. PICK e :
        /\ logs' = Append(logs, e)
        /\ e.actor = who
        /\ e.target = whom
        /\ e.before = [f \in C |-> users[whom][f]]
        /\ e.after = [f \in C |-> users'[whom][f]]
  <2>1. PICK action : logs' = Append(logs,
                 [actor  |-> who,
                  action |-> action,
                  target |-> whom,
                  before |-> [f \in C |-> users[whom][f]],
                  after  |-> [f \in C |-> users'[whom][f]]])
    BY <1>2
  <2> DEFINE x == [actor  |-> who,
                   action |-> action,
                   target |-> whom,
                   before |-> [f \in C |-> users[whom][f]],
                   after  |-> [f \in C |-> users'[whom][f]]]
  <2>2. /\ x.actor = who
        /\ x.target = whom
        /\ x.before = [f \in C |-> users[whom][f]]
        /\ x.after = [f \in C |-> users'[whom][f]]
    OBVIOUS
  <2>3. logs' = Append(logs, x)
    BY <2>1
  <2> HIDE DEF x
  <2> QED
    BY <2>2, <2>3
<1> DEFINE k == Len(logs)
<1>4. /\ k \in Nat
      /\ logs' \in Seq(S \cup {e})
      /\ Len(logs') = k + 1
      /\ logs'[k + 1] = e
      /\ \A i \in 1..k : logs'[i] = logs[i]
  BY <1>1, <1>3, AppendFacts
<1>5. IsLedger'
  BY <1>4 DEF IsLedger
<1>6. ASSUME NEW n \in 0..k, NEW u, NEW f, NEW v, Ledger!Says(origin, logs, n, u, f, v)
      PROVE  Ledger!Says(origin, logs', n, u, f, v)
  BY <1>1, <1>3, <1>6, SaysIsStable
<1>7. ASSUME NEW n \in 0..k, NEW u, Ledger!EntitledBy(origin, logs, n, u)
      PROVE  Ledger!EntitledBy(origin, logs', n, u)
  BY <1>1, <1>3, <1>7, EntitlementIsStable
<1>8. ASSUME NEW u \in Users, NEW f \in Fields
      PROVE  Ledger!Says(origin, logs', k + 1, u, f, users'[u][f])
  <2>1. CASE u = whom /\ f \in C
    <3>1. e.target = u /\ f \in DOMAIN e.after /\ e.after[f] = users'[u][f]
      BY <1>3, <2>1
    <3> QED
      BY <3>1, <1>1, <1>3, SaysAfterAppend
  <2>2. CASE ~(u = whom /\ f \in C)
    <3>1. ~(e.target = u /\ f \in DOMAIN e.after)
      BY <1>3, <2>2
    <3>2. Ledger!Says(origin, logs, k, u, f, users[u][f])
      BY DEF LedgerInv, Ledger!LedgerExplainsValues
    <3>3. users'[u][f] = users[u][f]
      BY <1>2, <2>2
    <3>4. Ledger!Says(origin, logs', k + 1, u, f, users[u][f])
      BY <3>1, <3>2, <1>1, <1>3, SaysAfterAppend
    <3> QED
      BY <3>3, <3>4
  <2> QED
    BY <2>1, <2>2
<1>9. Ledger!LedgerExplainsValues'
  BY <1>8, <1>4, <1>2 DEF Ledger!LedgerExplainsValues
<1>10. Ledger!LedgerIsChained'
  <2> SUFFICES ASSUME NEW i \in 1..(k + 1)
               PROVE  /\ DOMAIN logs'[i].before = DOMAIN logs'[i].after
                      /\ \A f \in DOMAIN logs'[i].after :
                            Ledger!Says(origin, logs', i - 1, logs'[i].target, f,
                                 logs'[i].before[f])
    BY <1>4, <1>2 DEF Ledger!LedgerIsChained
  <2>1. CASE i \in 1..k
    <3>1. logs'[i] = logs[i] /\ i - 1 \in 0..k
      BY <2>1, <1>4
    <3>2. /\ DOMAIN logs[i].before = DOMAIN logs[i].after
          /\ \A f \in DOMAIN logs[i].after :
                Ledger!Says(origin, logs, i - 1, logs[i].target, f, logs[i].before[f])
      BY <2>1 DEF LedgerInv, Ledger!LedgerIsChained
    <3> QED
      BY <3>1, <3>2, <1>6
  <2>2. CASE i = k + 1
    <3>1. logs'[i] = e /\ i - 1 = k /\ k \in 0..k
      BY <2>2, <1>4
    <3>2. DOMAIN e.before = DOMAIN e.after /\ DOMAIN e.after = C
      BY <1>3
    <3>3. ASSUME NEW f \in C
          PROVE  Ledger!Says(origin, logs', k, e.target, f, e.before[f])
      <4>1. Ledger!Says(origin, logs, k, whom, f, users[whom][f])
        BY <1>2 DEF LedgerInv, Ledger!LedgerExplainsValues
      <4>2. e.before[f] = users[whom][f] /\ e.target = whom
        BY <1>3
      <4> QED
        BY <4>1, <4>2, <3>1, <1>6
    <3> QED
      BY <3>1, <3>2, <3>3
  <2> QED
    BY <2>1, <2>2, <1>4
<1>11. Ledger!AuthorityIsGranted'
  <2> SUFFICES ASSUME NEW i \in 1..(k + 1)
               PROVE  /\ logs'[i].actor # logs'[i].target
                      /\ \E n \in 0..(i - 1) :
                            Ledger!EntitledBy(origin, logs', n, logs'[i].actor)
    BY <1>4, <1>2 DEF Ledger!AuthorityIsGranted
  <2>1. CASE i \in 1..k
    <3>1. logs'[i] = logs[i]
      BY <2>1, <1>4
    <3>2. logs[i].actor # logs[i].target
      BY <2>1 DEF LedgerInv, Ledger!AuthorityIsGranted
    <3>3. PICK n \in 0..(i - 1) : Ledger!EntitledBy(origin, logs, n, logs[i].actor)
      BY <2>1 DEF LedgerInv, Ledger!AuthorityIsGranted
    <3>4. n \in 0..k
      BY <2>1, <1>4
    <3> QED
      BY <3>1, <3>2, <3>3, <3>4, <1>7
  <2>2. CASE i = k + 1
    <3>1. logs'[i] = e /\ i - 1 = k
      BY <2>2, <1>4
    <3>2. PICK n \in 0..k : Ledger!EntitledBy(origin, logs, n, who)
      BY <1>2
    <3> QED
      BY <3>1, <3>2, <1>2, <1>3, <1>7
  <2> QED
    BY <2>1, <2>2, <1>4
<1> QED
  BY <1>5, <1>9, <1>10, <1>11 DEF LedgerInv

LEMMA StutterPreservesLedgerInv == LedgerInv /\ UNCHANGED <<origin, users, logs>> => LedgerInv'
  BY DEF LedgerInv, IsLedger, Ledger!LedgerExplainsValues, Ledger!LedgerIsChained,
         Ledger!AuthorityIsGranted

(* In every behaviour of the ledger, for any users and columns: replaying the
   ledger gives the current values, every entry continues the previous one on
   the same column, and every actor was entitled by earlier entries. *)
THEOREM LedgerKeepsItsPromises ==
    Ledger!Spec => [](/\ Ledger!LedgerExplainsValues
                      /\ Ledger!LedgerIsChained
                      /\ Ledger!AuthorityIsGranted)
<1>1. LedgerInv /\ [Ledger!Record]_(Ledger!ledgerVars) => LedgerInv'
  BY RecordPreservesLedgerInv, StutterPreservesLedgerInv DEF Ledger!ledgerVars
<1>2. LedgerInv => Ledger!LedgerExplainsValues /\ Ledger!LedgerIsChained /\ Ledger!AuthorityIsGranted
  BY DEF LedgerInv
<1> QED
  BY InitEstablishesLedgerInv, <1>1, <1>2, PTL DEF Ledger!Spec

-----------------------------------------------------------------------------
Live(r) == pc[r] \in {"gated", "locked", "flushed", "committed"}
Held(r) == pc[r] \in {"locked", "flushed"}

(* What the gates established and the locked read added. *)
RequestsOK ==
    \A r \in Requests :
        /\ Live(r) => actor[r] \in Users /\ actor[r] # target[r]
        /\ Held(r) => target[r] \in Users
        /\ before[r] = [f \in DOMAIN before[r] |-> before[r][f]]
        /\ after[r] = [f \in DOMAIN after[r] |-> after[r][f]]

(* At most one request holds a row FOR UPDATE. *)
RowLocksExclusive ==
    \A r, s \in Requests : r # s /\ Held(r) /\ Held(s) => target[r] # target[s]

Authority ==
    \A r \in Requests : Live(r) => Ledger!EntitledBy(origin, logs, since[r], actor[r])

ModInv ==
    /\ TypeOK
    /\ RequestsOK
    /\ RowLocksExclusive
    /\ ReadStaysTrue
    /\ Authority
    /\ LedgerInv

LEMMA InitEstablishesModInv == Init => ModInv
<1> SUFFICES ASSUME Init PROVE ModInv
  OBVIOUS
<1>1. TypeOK
  BY ModerationAssumption DEF Init, TypeOK, Stages, LegalBody, NoData, Answered
<1>2. RequestsOK /\ RowLocksExclusive /\ ReadStaysTrue /\ Authority
  BY DEF Init, NoData, RequestsOK, RowLocksExclusive, ReadStaysTrue, Authority, Live, Held
<1>3. LedgerInv
  <2>1. Ledger!Init
    BY DEF Init, Ledger!Init
  <2> QED
    BY <2>1, InitEstablishesLedgerInv
<1> QED
  BY <1>1, <1>2, <1>3 DEF ModInv

(* A step that keeps the table and the log keeps the ledger's invariant. *)
LEMMA LedgerStutters ==
    LedgerInv /\ UNCHANGED <<users, logs, origin>> => LedgerInv'
  BY StutterPreservesLedgerInv DEF Ledger!ledgerVars

(* Steps that move one request's pc without entering the locked section or the
   set of live requests. *)
PcOnly(r, p) ==
    /\ pc' = [pc EXCEPT ![r] = p]
    /\ UNCHANGED <<users, logs, verified, now, before, after, origin, local>>

LEMMA PcOnlyPreservesModInv ==
    ASSUME ModInv, NEW r \in Requests, NEW p \in Stages, PcOnly(r, p),
           p \in {"flushed", "committed", "refused", "ok", "failed"},
           p = "flushed" => Held(r),
           p = "committed" => Live(r)
    PROVE  ModInv'
<1> USE DEF local
<1>1. TypeOK'
  BY DEF ModInv, PcOnly, TypeOK, LegalRow, LegalBody
<1>2. pc' = [pc EXCEPT ![r] = p] /\ pc \in [Requests -> Stages]
  BY DEF PcOnly, ModInv, TypeOK
<1>3. \A s \in Requests : (Live(s)' => Live(s)) /\ (Held(s)' => Held(s))
  BY <1>2 DEF Live, Held
<1>4. RequestsOK'
  BY <1>3 DEF ModInv, RequestsOK, PcOnly
<1>5. RowLocksExclusive'
  BY <1>3 DEF ModInv, RowLocksExclusive, PcOnly
<1>6. ReadStaysTrue'
  BY <1>3 DEF ModInv, ReadStaysTrue, PcOnly, Held
<1>7. Authority'
  BY <1>3 DEF ModInv, Authority, PcOnly
<1>8. LedgerInv'
  BY LedgerStutters DEF ModInv, PcOnly
<1> QED
  BY <1>1, <1>4, <1>5, <1>6, <1>7, <1>8 DEF ModInv

LEMMA AuthenticatePreservesModInv ==
    ASSUME ModInv, NEW r \in Requests, Authenticate(r)
    PROVE  ModInv'
<1>1. PICK a \in Users, t \in Ids, b \in Bodies :
        /\ MayManage(a)
        /\ t # a
        /\ actor' = [actor EXCEPT ![r] = a]
        /\ target' = [target EXCEPT ![r] = t]
        /\ body' = [body EXCEPT ![r] = b]
  BY DEF Authenticate
<1>2. /\ pc[r] = "idle"
      /\ pc' = [pc EXCEPT ![r] = "gated"]
      /\ since' = [since EXCEPT ![r] = Len(logs)]
      /\ UNCHANGED <<users, logs, verified, now, before, after, origin>>
  BY DEF Authenticate
<1>3. TypeOK
  BY DEF ModInv
<1>4. /\ \A s \in Requests : Held(s)' <=> Held(s)
      /\ \A s \in Requests : Live(s)' <=> Live(s) \/ s = r
      /\ ~Held(r)
  BY <1>2, <1>3 DEF TypeOK, Live, Held
<1>5. PICK S : logs \in Seq(S)
  BY DEF ModInv, LedgerInv, IsLedger
<1>6. Len(logs) \in Nat
  BY <1>5
<1>7. TypeOK'
  <2>1. t \in Users \cup {NoUser} /\ LegalBody(b)
    BY ModerationAssumption
  <2>2. /\ pc' \in [Requests -> Stages]
        /\ actor' \in [Requests -> Users \cup {NoUser}]
        /\ target' \in [Requests -> Users \cup {NoUser}]
        /\ since' \in [Requests -> Nat]
        /\ DOMAIN body' = Requests
    BY <1>1, <1>2, <1>3, <1>6, <2>1 DEF TypeOK, Stages
  <2>3. \A s \in Requests : since'[s] <= Len(logs) /\ LegalBody(body'[s])
    BY <1>1, <1>2, <1>3, <1>6, <2>1 DEF TypeOK
  <2> QED
    BY <2>2, <2>3, <1>2, <1>3 DEF TypeOK, LegalBody, LegalRow
<1>8. RequestsOK'
  BY <1>1, <1>2, <1>3, <1>4 DEF ModInv, RequestsOK, TypeOK
<1>9. RowLocksExclusive'
  BY <1>1, <1>2, <1>3, <1>4 DEF ModInv, RowLocksExclusive, TypeOK
<1>10. ReadStaysTrue'
  BY <1>1, <1>2, <1>3, <1>4 DEF ModInv, ReadStaysTrue, TypeOK, Held
<1>11. Ledger!EntitledBy(origin, logs, Len(logs), a)
  <2>1. users[a]["can_manage_user"] = TRUE /\ users[a]["is_banned"] = FALSE
    BY <1>1, <1>3 DEF MayManage, TypeOK, LegalRow, Fields, Permissions
  <2>2. \A f \in Fields : Ledger!Says(origin, logs, Len(logs), a, f, users[a][f])
    BY DEF ModInv, LedgerInv, Ledger!LedgerExplainsValues
  <2>3. "can_manage_user" \in Fields /\ "is_banned" \in Fields
    BY DEF Fields, Permissions
  <2> QED
    BY <2>1, <2>2, <2>3 DEF Ledger!EntitledBy
<1>12. Authority'
  <2> SUFFICES ASSUME NEW s \in Requests, Live(s)'
               PROVE  Ledger!EntitledBy(origin, logs, since'[s], actor'[s])
    BY <1>2 DEF Authority
  <2>1. CASE s = r
    BY <2>1, <1>1, <1>2, <1>3, <1>11 DEF TypeOK
  <2>2. CASE s # r
    <3>1. since'[s] = since[s] /\ actor'[s] = actor[s] /\ Live(s)
      BY <2>2, <1>1, <1>2, <1>3, <1>4 DEF TypeOK
    <3> QED
      BY <3>1 DEF ModInv, Authority
  <2> QED
    BY <2>1, <2>2
<1>13. LedgerInv'
  BY <1>2, LedgerStutters DEF ModInv
<1> QED
  BY <1>7, <1>8, <1>9, <1>10, <1>12, <1>13 DEF ModInv

LEMMA LockTargetPreservesModInv ==
    ASSUME ModInv, NEW r \in Requests, LockTarget(r)
    PROVE  ModInv'
<1> USE DEF local
<1> DEFINE old == [f \in DOMAIN body[r] |-> users[target[r]][f]]
           new == [f \in DOMAIN body[r] |-> NewValue(f, body[r][f])]
<1>1. /\ pc[r] = "gated"
      /\ target[r] \in Users
      /\ ForUpdateGranted(r, target[r])
      /\ before' = [before EXCEPT ![r] = old]
      /\ after' = [after EXCEPT ![r] = new]
      /\ pc' = [pc EXCEPT ![r] = "locked"]
      /\ UNCHANGED <<users, logs, verified, now, origin, actor, target, body, since>>
  BY DEF LockTarget
<1>2. TypeOK
  BY DEF ModInv
<1>3. /\ \A s \in Requests : Live(s)' <=> Live(s)
      /\ \A s \in Requests : Held(s)' <=> Held(s) \/ s = r
      /\ Live(r) /\ ~Held(r)
  BY <1>1, <1>2 DEF TypeOK, Live, Held
<1>4. /\ before'[r] = old /\ after'[r] = new
      /\ \A s \in Requests \ {r} : before'[s] = before[s] /\ after'[s] = after[s]
      /\ DOMAIN before' = Requests /\ DOMAIN after' = Requests
  BY <1>1, <1>2 DEF TypeOK
<1>5. LegalBody(new)
  <2>1. LegalBody(body[r]) /\ now \in Nat
    BY <1>2 DEF TypeOK
  <2>2. DOMAIN new = DOMAIN body[r]
    OBVIOUS
  <2>3. \A f \in DOMAIN body[r] : f # "suspended_until" => new[f] = body[r][f]
    BY DEF NewValue
  <2>4. \A f \in DOMAIN body[r] : body[r][f] \in Nat => new[f] \in Nat
    BY <2>1 DEF NewValue
  <2> HIDE DEF new
  <2>5. "suspended_until" \notin Permissions /\ "is_banned" # "suspended_until"
    BY DEF Permissions
  <2>6. CASE DOMAIN body[r] \subseteq Permissions
               /\ \A f \in DOMAIN body[r] : body[r][f] \in BOOLEAN
    BY <2>2, <2>3, <2>5, <2>6 DEF LegalBody
  <2>7. CASE DOMAIN body[r] = {"is_banned"} /\ body[r]["is_banned"] \in BOOLEAN
    BY <2>2, <2>3, <2>5, <2>7 DEF LegalBody
  <2>8. CASE DOMAIN body[r] = {"suspended_until"} /\ body[r]["suspended_until"] \in Nat
    BY <2>2, <2>4, <2>8 DEF LegalBody
  <2> QED
    BY <2>1, <2>6, <2>7, <2>8 DEF LegalBody
<1>6. DOMAIN old = DOMAIN new
  OBVIOUS
<1>7. /\ old = [f \in DOMAIN old |-> old[f]]
      /\ new = [f \in DOMAIN new |-> new[f]]
      /\ \A f \in DOMAIN old : old[f] = users[target[r]][f]
  OBVIOUS
<1> HIDE DEF old, new
<1>8. TypeOK'
  <2>1. pc' \in [Requests -> Stages]
    BY <1>1, <1>2 DEF TypeOK, Stages
  <2>2. \A s \in Requests : LegalBody(after'[s]) /\ DOMAIN before'[s] = DOMAIN after'[s]
    BY <1>2, <1>4, <1>5, <1>6 DEF TypeOK
  <2> QED
    BY <2>1, <2>2, <1>1, <1>2, <1>4 DEF TypeOK, LegalBody, LegalRow
<1>9. RequestsOK'
  <2> SUFFICES ASSUME NEW s \in Requests
               PROVE  /\ Live(s)' => actor[s] \in Users /\ actor[s] # target[s]
                      /\ Held(s)' => target[s] \in Users
                      /\ before'[s] = [f \in DOMAIN before'[s] |-> before'[s][f]]
                      /\ after'[s] = [f \in DOMAIN after'[s] |-> after'[s][f]]
    BY <1>1 DEF RequestsOK
  <2>1. CASE s = r
    BY <2>1, <1>1, <1>3, <1>4, <1>7 DEF ModInv, RequestsOK
  <2>2. CASE s # r
    BY <2>2, <1>1, <1>3, <1>4 DEF ModInv, RequestsOK
  <2> QED
    BY <2>1, <2>2
<1>10. RowLocksExclusive'
  <2>1. \A s \in Requests \ {r} : Held(s) => target[s] # target[r]
    BY <1>1 DEF ForUpdateGranted, HoldsForUpdate, Held
  <2> QED
    BY <2>1, <1>1, <1>3 DEF ModInv, RowLocksExclusive
<1>11. ReadStaysTrue'
  <2> SUFFICES ASSUME NEW s \in Requests, Held(s)'
               PROVE  \A f \in DOMAIN before'[s] : before'[s][f] = users[target[s]][f]
    BY <1>1 DEF ReadStaysTrue, Held
  <2>1. CASE s = r
    BY <2>1, <1>4, <1>7
  <2>2. CASE s # r
    BY <2>2, <1>3, <1>4 DEF ModInv, ReadStaysTrue, Held
  <2> QED
    BY <2>1, <2>2
<1>12. Authority'
  BY <1>1, <1>3 DEF ModInv, Authority
<1>13. LedgerInv'
  BY <1>1, LedgerStutters DEF ModInv
<1> QED
  BY <1>8, <1>9, <1>10, <1>11, <1>12, <1>13 DEF ModInv

(* What a commit writes: the target's row takes exactly the values of after,
   and every other column of every user keeps its value.  This is where the
   row lock is needed: only the columns that differ from the locked read are
   written, so the others must still hold what was read. *)
LEMMA CommitWrites ==
    ASSUME ModInv, NEW r \in Requests, Commit(r)
    PROVE  /\ target[r] \in Users /\ actor[r] \in Users /\ actor[r] # target[r]
           /\ DOMAIN after[r] \subseteq Fields
           /\ DOMAIN users' = Users
           /\ users'[target[r]] = [f \in Fields |-> IF f \in DOMAIN after[r]
                                       THEN after[r][f] ELSE users[target[r]][f]]
           /\ \A u \in Users : u # target[r] => users'[u] = users[u]
           /\ before[r] = [f \in DOMAIN after[r] |-> users[target[r]][f]]
           /\ after[r] = [f \in DOMAIN after[r] |-> users'[target[r]][f]]
<1> DEFINE t == target[r]
           C == DOMAIN after[r]
<1>1. /\ pc[r] = "flushed"
      /\ users' = [users EXCEPT ![t] =
                     [f \in Fields |-> IF f \in Written(r) THEN after[r][f] ELSE @[f]]]
  BY DEF Commit
<1>2. t \in Users /\ actor[r] \in Users /\ actor[r] # t
  BY <1>1 DEF ModInv, RequestsOK, Live, Held
<1>3. DOMAIN users = Users /\ LegalBody(after[r]) /\ DOMAIN before[r] = C
  BY DEF ModInv, TypeOK
<1>4. C \subseteq Fields
  BY <1>3 DEF LegalBody, Fields
<1>5. \A f \in C : before[r][f] = users[t][f]
  BY <1>1, <1>3 DEF ModInv, ReadStaysTrue
<1>6. users'[t] = [f \in Fields |-> IF f \in Written(r) THEN after[r][f] ELSE users[t][f]]
  BY <1>1, <1>2, <1>3
<1>7. \A f \in Fields : (IF f \in Written(r) THEN after[r][f] ELSE users[t][f])
                       = (IF f \in C THEN after[r][f] ELSE users[t][f])
  BY <1>5 DEF Written
<1>8. users'[t] = [f \in Fields |-> IF f \in C THEN after[r][f] ELSE users[t][f]]
  BY <1>6, <1>7
<1>9. before[r] = [f \in C |-> users[t][f]]
  <2>1. before[r] = [f \in C |-> before[r][f]]
    BY <1>3 DEF ModInv, RequestsOK
  <2> QED
    BY <2>1, <1>5
<1>10. after[r] = [f \in C |-> users'[t][f]]
  <2>1. after[r] = [f \in C |-> after[r][f]]
    BY DEF ModInv, RequestsOK
  <2>2. \A f \in C : users'[t][f] = after[r][f]
    BY <1>8, <1>4
  <2> QED
    BY <2>1, <2>2
<1>11. DOMAIN users' = Users /\ \A u \in Users : u # t => users'[u] = users[u]
  BY <1>1, <1>3
<1> QED
  BY <1>2, <1>4, <1>8, <1>9, <1>10, <1>11

(* A commit is one recorded change of the abstract ledger. *)
LEMMA CommitIsRecord ==
    ASSUME ModInv, NEW r \in Requests, Commit(r)
    PROVE  Ledger!Record
<1> DEFINE t == target[r]
           C == DOMAIN after[r]
           entry(x) == [actor  |-> actor[r],
                        action |-> x,
                        target |-> t,
                        before |-> before[r],
                        after  |-> after[r]]
<1>1. logs' = Append(logs, entry(ActionOf(body[r]))) /\ origin' = origin
  BY DEF Commit
<1>2. ActionOf(body[r]) \in {"user.permissions.update", "user.suspension.update",
                             "user.ban.update"}
  BY DEF ActionOf
<1>3. /\ t \in Users /\ actor[r] \in Users /\ actor[r] # t
      /\ C \in SUBSET Fields
      /\ before[r] = [f \in C |-> users[t][f]]
      /\ after[r] = [f \in C |-> users'[t][f]]
  BY CommitWrites
<1>4. \A u \in Users, f \in Fields : (u # t \/ f \notin C) => users'[u][f] = users[u][f]
  <2>1. users'[t] = [f \in Fields |-> IF f \in C THEN after[r][f] ELSE users[t][f]]
    BY CommitWrites
  <2>2. \A u \in Users : u # t => users'[u] = users[u]
    BY CommitWrites
  <2> QED
    BY <2>1, <2>2
<1>5. \E n \in 0..Len(logs) : Ledger!EntitledBy(origin, logs, n, actor[r])
  <2>1. Ledger!EntitledBy(origin, logs, since[r], actor[r])
    BY DEF Commit, ModInv, Authority, Live
  <2>2. since[r] \in 0..Len(logs)
    <3>1. PICK S : logs \in Seq(S)
      BY DEF ModInv, LedgerInv, IsLedger
    <3>2. Len(logs) \in Nat /\ since[r] \in Nat /\ since[r] <= Len(logs)
      BY <3>1 DEF ModInv, TypeOK
    <3> QED
      BY <3>2
  <2> QED
    BY <2>1, <2>2
<1>6. \E action \in {"user.permissions.update", "user.suspension.update",
                     "user.ban.update"} :
         logs' = Append(logs,
                   [actor  |-> actor[r],
                    action |-> action,
                    target |-> t,
                    before |-> [f \in C |-> users[t][f]],
                    after  |-> [f \in C |-> users'[t][f]]])
  <2>1. logs' = Append(logs,
                   [actor  |-> actor[r],
                    action |-> ActionOf(body[r]),
                    target |-> t,
                    before |-> [f \in C |-> users[t][f]],
                    after  |-> [f \in C |-> users'[t][f]]])
    BY <1>1, <1>3, Zenon
  <2> QED
    BY <1>2, <2>1
<1> HIDE DEF C, t
<1>7. t \in Users /\ actor[r] \in Users /\ C \in SUBSET Fields /\ UNCHANGED origin
  BY <1>1, <1>3
<1> SUFFICES \E a \in Users, u0 \in Users, S \in SUBSET Fields :
        /\ a # u0
        /\ \E action \in {"user.permissions.update", "user.suspension.update",
                          "user.ban.update"} :
              logs' = Append(logs,
                 [actor  |-> a,
                  action |-> action,
                  target |-> u0,
                  before |-> [f \in S |-> users[u0][f]],
                  after  |-> [f \in S |-> users'[u0][f]]])
        /\ \E n \in 0..Len(logs) : Ledger!EntitledBy(origin, logs, n, a)
        /\ \A u \in Users, f \in Fields :
              (u # u0 \/ f \notin S) => users'[u][f] = users[u][f]
        /\ UNCHANGED origin
  BY Zenon DEF Ledger!Record
<1> USE <1>7
<1> WITNESS actor[r] \in Users, t \in Users, C \in SUBSET Fields
<1> QED
  BY <1>3, <1>4, <1>5, <1>6, <1>7

LEMMA CommitPreservesModInv ==
    ASSUME ModInv, NEW r \in Requests, Commit(r)
    PROVE  ModInv'
<1> USE DEF local
<1>1. /\ pc[r] = "flushed"
      /\ pc' = [pc EXCEPT ![r] = "committed"]
      /\ UNCHANGED <<verified, now, before, after, origin, actor, target, body, since>>
  BY DEF Commit
<1>2. TypeOK
  BY DEF ModInv
<1>3. /\ \A s \in Requests : Live(s)' <=> Live(s)
      /\ \A s \in Requests : Held(s)' <=> Held(s) /\ s # r
  BY <1>1, <1>2 DEF TypeOK, Live, Held
<1>4. PICK S, e : logs \in Seq(S) /\ logs' = Append(logs, e)
  BY DEF ModInv, LedgerInv, IsLedger, Commit
<1>5. Len(logs) \in Nat /\ Len(logs') = Len(logs) + 1
  BY <1>4, AppendFacts
<1>6. TypeOK'
  <2>1. pc' \in [Requests -> Stages]
    BY <1>1, <1>2 DEF TypeOK, Stages
  <2>2. \A s \in Requests : since[s] <= Len(logs')
    BY <1>2, <1>5 DEF TypeOK
  <2>3. DOMAIN users' = Users
    BY CommitWrites
  <2>4. \A u \in Users : LegalRow(users'[u])
    <3>1. LegalRow(users'[target[r]])
      <4>1. users'[target[r]] = [f \in Fields |-> IF f \in DOMAIN after[r]
                                  THEN after[r][f] ELSE users[target[r]][f]]
        BY CommitWrites
      <4>2. LegalBody(after[r]) /\ LegalRow(users[target[r]])
        BY CommitWrites, <1>2 DEF TypeOK
      <4>3. "suspended_until" \notin Permissions /\ "is_banned" # "suspended_until"
            /\ "suspended_until" \in Fields
        BY DEF Permissions, Fields
      <4>4. /\ \A f \in DOMAIN after[r] : f # "suspended_until" => after[r][f] \in BOOLEAN
            /\ "suspended_until" \in DOMAIN after[r] => after[r]["suspended_until"] \in Nat
        BY <4>2, <4>3 DEF LegalBody
      <4> QED
        BY <4>1, <4>2, <4>3, <4>4 DEF LegalRow
    <3> QED
      BY <3>1, <1>2, CommitWrites DEF TypeOK
  <2> QED
    BY <2>1, <2>2, <2>3, <2>4, <1>1, <1>2 DEF TypeOK, LegalBody, LegalRow
<1>7. RequestsOK'
  BY <1>1, <1>3 DEF ModInv, RequestsOK
<1>8. RowLocksExclusive'
  BY <1>1, <1>3 DEF ModInv, RowLocksExclusive
<1>9. ReadStaysTrue'
  <2> SUFFICES ASSUME NEW s \in Requests, Held(s), s # r
               PROVE  \A f \in DOMAIN before[s] : before[s][f] = users'[target[s]][f]
    BY <1>1, <1>3 DEF ReadStaysTrue, Held
  <2>1. target[s] # target[r] /\ target[s] \in Users
    BY <1>1 DEF ModInv, RowLocksExclusive, RequestsOK, Held
  <2>2. users'[target[s]] = users[target[s]]
    BY <2>1, CommitWrites
  <2> QED
    BY <2>2 DEF ModInv, ReadStaysTrue, Held
<1>10. Authority'
  <2> SUFFICES ASSUME NEW s \in Requests, Live(s)
               PROVE  Ledger!EntitledBy(origin, logs', since[s], actor[s])
    BY <1>1, <1>3 DEF Authority
  <2>1. Ledger!EntitledBy(origin, logs, since[s], actor[s])
    BY DEF ModInv, Authority
  <2>2. since[s] \in 0..Len(logs)
    BY <1>2, <1>5 DEF TypeOK
  <2> QED
    BY <2>1, <2>2, <1>4, EntitlementIsStable
<1>11. LedgerInv'
  BY CommitIsRecord, RecordPreservesLedgerInv DEF ModInv
<1> QED
  BY <1>6, <1>7, <1>8, <1>9, <1>10, <1>11 DEF ModInv

(* VerifyEmail and Tick touch neither the requests nor the audited columns. *)
LEMMA OtherStepsPreserveModInv ==
    ASSUME ModInv, UNCHANGED <<users, logs, pc, before, after, origin, local>>,
           verified' \subseteq Users, now' \in Nat
    PROVE  ModInv'
<1> USE DEF local
<1>1. TypeOK'
  BY DEF ModInv, TypeOK, LegalRow, LegalBody
<1>2. RequestsOK' /\ RowLocksExclusive' /\ ReadStaysTrue' /\ Authority'
  BY DEF ModInv, RequestsOK, RowLocksExclusive, ReadStaysTrue, Authority, Live, Held
<1>3. LedgerInv'
  BY LedgerStutters DEF ModInv
<1> QED
  BY <1>1, <1>2, <1>3 DEF ModInv

(* Every step of a request or of the environment is a recorded change of the
   ledger or leaves table, log and origin alone. *)
LEMMA StepIsRecordOrStutter ==
    ASSUME ModInv, Next
    PROVE  Ledger!Record \/ UNCHANGED <<origin, users, logs>>
<1>1. ASSUME NEW r \in Requests, Commit(r)
      PROVE  Ledger!Record
  BY <1>1, CommitIsRecord
<1>2. ASSUME NEW r \in Requests,
             Authenticate(r) \/ Refuse(r) \/ LockTarget(r) \/ NotFound(r) \/ Flush(r)
             \/ Reload(r) \/ DeadlockAbort(r) \/ Fail(r)
      PROVE  UNCHANGED <<origin, users, logs>>
  BY <1>2 DEF Authenticate, Refuse, LockTarget, NotFound, Flush, Reload,
              DeadlockAbort, Fail
<1>3. ASSUME (\E u \in Users : VerifyEmail(u)) \/ Tick
      PROVE  UNCHANGED <<origin, users, logs>>
  BY <1>3 DEF VerifyEmail, Tick, local
<1> QED
  BY <1>1, <1>2, <1>3 DEF Next, Serve

LEMMA NextPreservesModInv == ModInv /\ [Next]_vars => ModInv'
<1> SUFFICES ASSUME ModInv, [Next]_vars PROVE ModInv'
  OBVIOUS
<1>1. ASSUME NEW r \in Requests, Authenticate(r) PROVE ModInv'
  BY <1>1, AuthenticatePreservesModInv
<1>2. ASSUME NEW r \in Requests, LockTarget(r) PROVE ModInv'
  BY <1>2, LockTargetPreservesModInv
<1>3. ASSUME NEW r \in Requests, Commit(r) PROVE ModInv'
  BY <1>3, CommitPreservesModInv
<1>4. ASSUME NEW r \in Requests, Flush(r) PROVE ModInv'
  <2>1. PcOnly(r, "flushed") /\ Held(r)
    BY <1>4 DEF Flush, PcOnly, Held
  <2> QED
    BY <2>1, PcOnlyPreservesModInv DEF Stages
<1>5. ASSUME NEW r \in Requests,
             Refuse(r) \/ NotFound(r) \/ Fail(r) \/ DeadlockAbort(r) \/ Reload(r)
      PROVE  ModInv'
  <2>1. \E p \in Answered : PcOnly(r, p)
    BY <1>5 DEF Refuse, NotFound, Fail, DeadlockAbort, Reload, PcOnly, Answered
  <2> QED
    BY <2>1, PcOnlyPreservesModInv DEF Stages, Answered
<1>6. ASSUME NEW u \in Users, VerifyEmail(u) PROVE ModInv'
  BY <1>6, OtherStepsPreserveModInv DEF VerifyEmail, ModInv, TypeOK, local
<1>7. CASE Tick
  BY <1>7, OtherStepsPreserveModInv DEF Tick, ModInv, TypeOK, local
<1>8. CASE UNCHANGED vars
  BY <1>8, OtherStepsPreserveModInv DEF vars, ModInv, TypeOK, local
<1> QED
  BY <1>1, <1>2, <1>3, <1>4, <1>5, <1>6, <1>7, <1>8 DEF Next, Serve

(* The inductive invariant holds in every behaviour. *)
THEOREM ModInvInvariant == Spec => []ModInv
  BY InitEstablishesModInv, NextPreservesModInv, PTL DEF Spec

(* Type correctness, for any users, requests and bodies. *)
THEOREM TypeCorrect == Spec => []TypeOK
<1>1. ModInv => TypeOK
  BY DEF ModInv
<1> QED
  BY ModInvInvariant, <1>1, PTL

(* The row lock closes the window between read and commit: what a request read
   of its target under FOR UPDATE is still true when it commits. *)
THEOREM LockedReadsStayTrue == Spec => []ReadStaysTrue
<1>1. ModInv => ReadStaysTrue
  BY DEF ModInv
<1> QED
  BY ModInvInvariant, <1>1, PTL

(* The moderation endpoints implement the audit ledger: with any number of
   admins and concurrent requests, failing and deadlocking where they may, the
   users table and the audit table change together, one entry at a time. *)
THEOREM ModerationImplementsLedger == Spec => ImplementsLedger
<1>1. Init => Ledger!Init
  BY DEF Init, Ledger!Init
<1>2. ModInv /\ [Next]_vars => [Ledger!Record]_(Ledger!ledgerVars)
  <2>1. ModInv /\ Next => Ledger!Record \/ UNCHANGED <<origin, users, logs>>
    BY StepIsRecordOrStutter
  <2>2. UNCHANGED vars => UNCHANGED <<origin, users, logs>>
    BY DEF vars
  <2> QED
    BY <2>1, <2>2 DEF Ledger!ledgerVars
<1> QED
  BY <1>1, <1>2, ModInvInvariant, PTL DEF Spec, ImplementsLedger, Ledger!Spec

(* The audit table explains every audited column of every user. *)
THEOREM LogAlwaysExplainsUsers == Spec => []LogExplainsUsers
<1>1. ModInv => LogExplainsUsers
  BY DEF ModInv, LedgerInv, LogExplainsUsers
<1> QED
  BY ModInvInvariant, <1>1, PTL

(* No two admins overwrite each other unseen. *)
THEOREM LogAlwaysChained == Spec => []LogIsChained
<1>1. ModInv => LogIsChained
  BY DEF ModInv, LedgerInv, LogIsChained
<1> QED
  BY ModInvInvariant, <1>1, PTL

(* Every request past the gates rests on authority committed before it. *)
THEOREM AuthorityAlwaysCommitted == Spec => []ActsOnCommittedAuthority
<1>1. ModInv => ActsOnCommittedAuthority
  BY Zenon DEF ModInv, Authority, ActsOnCommittedAuthority, Live
<1> QED
  BY ModInvInvariant, <1>1, PTL

(* A request whose actor is no manager any more is one whose actor the log shows
   revoked since it authenticated: its gates had found it entitled. *)
LEMMA LostAuthorityIsLogged ==
    ASSUME ModInv, NEW r \in Requests, Live(r), ~users[actor[r]]["can_manage_user"]
    PROVE  RevokedMeanwhile(r)
<1> DEFINE a == actor[r]
           f == "can_manage_user"
           L == Len(logs)
<1>1. a \in Users /\ f \in Fields
  BY DEF ModInv, RequestsOK, Fields, Permissions
<1>2. users[a][f] = FALSE
  BY <1>1 DEF ModInv, TypeOK, LegalRow, Fields, Permissions
<1>3. since[r] \in 0..L /\ L \in Nat
  <2>1. PICK S : logs \in Seq(S)
    BY DEF ModInv, LedgerInv, IsLedger
  <2> QED
    BY <2>1 DEF ModInv, TypeOK
<1>4. Ledger!Says(origin, logs, since[r], a, f, TRUE)
  BY DEF ModInv, Authority, Ledger!EntitledBy
<1>5. Ledger!Says(origin, logs, L, a, f, FALSE)
  <2>1. Ledger!Says(origin, logs, L, a, f, users[a][f])
    BY <1>1 DEF ModInv, LedgerInv, Ledger!LedgerExplainsValues
  <2> QED
    BY <1>2, <2>1
<1> HIDE DEF a, f, L
<1>6. \E i \in (since[r] + 1)..L : Ledger!Touches(logs, i, a, f) /\ logs[i].after[f] = FALSE
  <2>1. CASE \A i \in 1..L : ~Ledger!Touches(logs, i, a, f)
    BY <2>1, <1>3, <1>4, <1>5 DEF Ledger!Says
  <2>2. CASE \E i \in 1..L : Ledger!Touches(logs, i, a, f)
    <3>1. PICK i \in 1..L :
            /\ Ledger!Touches(logs, i, a, f)
            /\ \A j \in (i + 1)..L : ~Ledger!Touches(logs, j, a, f)
            /\ FALSE = logs[i].after[f]
      BY <2>2, <1>5 DEF Ledger!Says
    <3>2. ~(i <= since[r])
      <4> SUFFICES ASSUME i <= since[r] PROVE FALSE
        OBVIOUS
      <4>1. PICK k \in 1..since[r] :
              /\ Ledger!Touches(logs, k, a, f)
              /\ \A j \in (k + 1)..since[r] : ~Ledger!Touches(logs, j, a, f)
              /\ TRUE = logs[k].after[f]
        BY <1>3, <1>4, <3>1 DEF Ledger!Says
      <4>2. k = i
        BY <1>3, <3>1, <4>1
      <4> QED
        BY <3>1, <4>1, <4>2
    <3> QED
      BY <1>3, <3>1, <3>2
  <2> QED
    BY <2>1, <2>2
<1> QED
  BY <1>6, Zenon DEF RevokedMeanwhile, Ledger!Touches, a, f, L

(* Nobody is left with can_manage_user only by overlapping requests: the last
   manager is revoked by someone who was revoked after passing the gates. *)
THEOREM LockoutTakesOverlap == Spec => OnlyOverlapLocksOut
<1>1. ModInv /\ [Next]_vars =>
        [HasManager /\ ~HasManager' => \E r \in Requests : Commit(r) /\ RevokedMeanwhile(r)]_vars
  <2> SUFFICES ASSUME ModInv, Next, HasManager, ~HasManager'
               PROVE  \E r \in Requests : Commit(r) /\ RevokedMeanwhile(r)
    OBVIOUS
  <2>1. users' # users
    BY DEF HasManager
  <2>2. PICK r \in Requests : Commit(r)
    BY <2>1 DEF Next, Serve, Authenticate, Refuse, LockTarget, NotFound, Flush,
                Reload, DeadlockAbort, Fail, VerifyEmail, Tick
  <2>3. actor[r] \in Users /\ users'[actor[r]] = users[actor[r]]
    BY <2>2, CommitWrites
  <2>4. ~users[actor[r]]["can_manage_user"]
    BY <2>3 DEF HasManager
  <2>5. Live(r)
    BY <2>2 DEF Commit, Live
  <2> QED
    BY <2>2, <2>4, <2>5, LostAuthorityIsLogged
<1> QED
  BY <1>1, ModInvInvariant, PTL DEF Spec, OnlyOverlapLocksOut

-----------------------------------------------------------------------------
(* Requests one at a time: each authenticates after the one before it has been
   answered. *)
OneAtATime == \A r, s \in Requests : Live(r) /\ Live(s) => r = s

(* Nothing was committed since a request on its way to its commit authenticated. *)
NothingMissed ==
    \A r \in Requests : pc[r] \in {"gated", "locked", "flushed"} => since[r] = Len(logs)

(* The comment at user.py:379-380 is right about requests that do not overlap:
   whoever revokes whom, one at a time, somebody keeps can_manage_user. *)
THEOREM OneAtATimeKeepsAManager == Spec /\ []OneAtATime => []SomeManagerRemains
<1> DEFINE Inv == ModInv /\ NothingMissed /\ SomeManagerRemains
<1>1. Init => NothingMissed /\ SomeManagerRemains
  BY DEF Init, NothingMissed, SomeManagerRemains
<1>2. ModInv /\ NothingMissed /\ OneAtATime /\ [Next]_vars => NothingMissed'
  <2> SUFFICES ASSUME ModInv, NothingMissed, OneAtATime, [Next]_vars PROVE NothingMissed'
    OBVIOUS
  <2>0. pc \in [Requests -> Stages] /\ since \in [Requests -> Nat]
    BY DEF ModInv, TypeOK
  <2>1. ASSUME NEW r \in Requests, Commit(r) PROVE NothingMissed'
    <3>1. pc[r] = "flushed" /\ pc' = [pc EXCEPT ![r] = "committed"]
      BY <2>1 DEF Commit
    <3>2. \A s \in Requests : pc'[s] \notin {"gated", "locked", "flushed"}
      BY <2>0, <3>1 DEF OneAtATime, Live
    <3> QED
      BY <3>2 DEF NothingMissed
  <2>2. ASSUME NEW r \in Requests, Authenticate(r) PROVE NothingMissed'
    BY <2>0, <2>2 DEF Authenticate, NothingMissed
  <2>3. ASSUME NEW r \in Requests, LockTarget(r) \/ Flush(r) PROVE NothingMissed'
    BY <2>0, <2>3 DEF LockTarget, Flush, NothingMissed, local
  <2>4. ASSUME NEW r \in Requests,
               Refuse(r) \/ NotFound(r) \/ Fail(r) \/ DeadlockAbort(r) \/ Reload(r)
        PROVE  NothingMissed'
    <3>1. \E p \in Answered : pc' = [pc EXCEPT ![r] = p]
      BY <2>4 DEF Refuse, NotFound, Fail, DeadlockAbort, Reload, Answered
    <3>2. UNCHANGED <<since, logs>>
      BY <2>4 DEF Refuse, NotFound, Fail, DeadlockAbort, Reload, local
    <3> QED
      BY <2>0, <3>1, <3>2 DEF NothingMissed, Answered
  <2>5. CASE UNCHANGED <<pc, since, logs>>
    BY <2>5 DEF NothingMissed
  <2>6. CASE Tick \/ UNCHANGED vars \/ \E u \in Users : VerifyEmail(u)
    BY <2>5, <2>6 DEF Tick, VerifyEmail, vars, local
  <2> QED
    BY <2>1, <2>2, <2>3, <2>4, <2>6 DEF Next, Serve
<1>3. NothingMissed /\ SomeManagerRemains /\ UNCHANGED origin
      /\ [HasManager /\ ~HasManager' => \E r \in Requests : Commit(r) /\ RevokedMeanwhile(r)]_vars
      /\ ModInv => SomeManagerRemains'
  <2> SUFFICES ASSUME NothingMissed, SomeManagerRemains, UNCHANGED origin, ModInv,
                      [HasManager /\ ~HasManager'
                         => \E r \in Requests : Commit(r) /\ RevokedMeanwhile(r)]_vars
               PROVE  SomeManagerRemains'
    OBVIOUS
  <2>1. CASE UNCHANGED vars
    BY <2>1 DEF vars, SomeManagerRemains
  <2>2. CASE HasManager /\ ~HasManager'
    <3>1. PICK r \in Requests : Commit(r) /\ RevokedMeanwhile(r)
      BY <2>2 DEF HasManager, vars
    <3>2. since[r] = Len(logs) /\ since[r] \in Nat
      BY <3>1 DEF NothingMissed, Commit, ModInv, TypeOK
    <3> QED
      BY <3>1, <3>2 DEF RevokedMeanwhile
  <2>3. CASE ~HasManager \/ HasManager'
    BY <2>3 DEF HasManager, SomeManagerRemains
  <2> QED
    BY <2>2, <2>3
<1>4. [Next]_vars => UNCHANGED origin
  BY DEF Next, Serve, Authenticate, Refuse, LockTarget, NotFound, Flush, Commit, Reload,
         DeadlockAbort, Fail, VerifyEmail, Tick, vars
<1> QED
  BY <1>1, <1>2, <1>3, <1>4, ModInvInvariant, LockoutTakesOverlap, PTL
  DEF Spec, OnlyOverlapLocksOut

-----------------------------------------------------------------------------
(* What a request past the gates needs for its next step: the guards of Serve,
   the last of them a wait-for cycle, which PostgreSQL breaks. *)
CanGoOn(r) ==
    \/ pc[r] = "gated" /\ (target[r] \in Users => ForUpdateGranted(r, target[r]))
    \/ pc[r] = "locked" /\ KeyShareGranted(r, actor[r])
    \/ pc[r] \in {"flushed", "committed"}
    \/ OnACycle(r)

SomebodyGoesOn ==
    (\E r \in Requests : Live(r)) => \E r \in Requests : CanGoOn(r)

(* If everybody in a finite set waits for somebody in it, there is a cycle: take
   a smallest such set; each of its members is waited for, or one could do
   without it. *)
LEMMA WaitersFormACycle ==
    ASSUME IsFiniteSet(Requests), NEW W \in SUBSET Requests, W # {},
           \A x \in W : \E y \in W : WaitsFor(x, y)
    PROVE  \E r \in Requests : OnACycle(r)
<1> DEFINE Closed == {S \in SUBSET Requests : S # {} /\ \A x \in S : \E y \in S : WaitsFor(x, y)}
<1>1. IsWellFoundedOn(StrictSubsetOrdering(Requests), FiniteSubsetsOf(Requests))
  BY FS_StrictSubsetOrderingWellFounded
<1>2. Closed \subseteq FiniteSubsetsOf(Requests) /\ Closed # {}
  <2>1. \A S \in SUBSET Requests : IsFiniteSet(S)
    BY FS_Subset
  <2>2. W \in Closed
    OBVIOUS
  <2> QED
    BY <2>1, <2>2 DEF FiniteSubsetsOf
<1> HIDE DEF Closed
<1>3. PICK T \in Closed : \A S \in Closed : <<S, T>> \notin StrictSubsetOrdering(Requests)
  BY <1>1, <1>2, WFMin
<1>4. T \in SUBSET Requests /\ T # {} /\ \A x \in T : \E y \in T : WaitsFor(x, y)
  BY DEF Closed
<1>5. ASSUME NEW y \in T PROVE \E x \in T : WaitsFor(x, y)
  <2> SUFFICES ASSUME \A x \in T : ~WaitsFor(x, y) PROVE FALSE
    OBVIOUS
  <2> DEFINE S == T \ {y}
  <2>1. PICK z \in T : WaitsFor(y, z)
    BY <1>4
  <2>2. z \in S
    BY <2>1 DEF WaitsFor
  <2>3. \A x \in S : \E w \in S : WaitsFor(x, w)
    BY <1>4
  <2>4. S \in Closed
    BY <1>4, <2>2, <2>3 DEF Closed
  <2>5. <<S, T>> \in StrictSubsetOrdering(Requests)
    BY <1>4 DEF StrictSubsetOrdering
  <2> QED
    BY <1>3, <2>4, <2>5
<1>6. PICK r \in T : TRUE
  BY <1>4
<1> QED
  BY <1>4, <1>5, <1>6 DEF OnACycle

(* The locks of the targets, the foreign key's locks and the deadlock detector
   never leave all requests waiting: while one is unanswered, one can take a
   step, for any number of requests (audit_repository.py:15-34). *)
THEOREM SomebodyAlwaysGoesOn ==
    ASSUME IsFiniteSet(Requests)
    PROVE  Spec => []SomebodyGoesOn
<1>1. ModInv => SomebodyGoesOn
  <2> SUFFICES ASSUME ModInv, NEW q \in Requests, Live(q),
                      \A r \in Requests : ~CanGoOn(r)
               PROVE  FALSE
    BY DEF SomebodyGoesOn
  <2> DEFINE W == {r \in Requests : pc[r] = "locked"}
  <2>0. \A r \in Requests : pc[r] \notin {"flushed", "committed"}
    BY DEF CanGoOn
  <2>1. ASSUME NEW x \in W PROVE \E y \in W : WaitsFor(x, y)
    <3>1. PICK y \in Requests \ {x} : HoldsForUpdate(y, actor[x])
      BY DEF CanGoOn, KeyShareGranted
    <3>2. pc[y] = "locked"
      BY <2>0, <3>1 DEF HoldsForUpdate
    <3> QED
      BY <3>1, <3>2 DEF WaitsFor
  <2>2. W # {}
    <3>1. CASE pc[q] = "locked"
      BY <3>1
    <3>2. CASE pc[q] = "gated"
      <4>1. PICK s \in Requests \ {q} :
               HoldsForUpdate(s, target[q]) \/ HoldsKeyShare(s, target[q])
        BY <3>2 DEF CanGoOn, ForUpdateGranted
      <4>2. pc[s] = "locked"
        BY <2>0, <4>1 DEF HoldsForUpdate, HoldsKeyShare
      <4> QED
        BY <4>2
    <3> QED
      BY <2>0, <3>1, <3>2 DEF Live
  <2>3. \E r \in Requests : OnACycle(r)
    BY <2>1, <2>2, WaitersFormACycle
  <2> QED
    BY <2>3 DEF CanGoOn
<1> QED
  BY ModInvInvariant, <1>1, PTL
=============================================================================
