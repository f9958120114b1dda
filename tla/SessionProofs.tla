--------------------------- MODULE SessionProofs ---------------------------
(* What Session guarantees for any phones, users and bounds.               *)
EXTENDS Session, SequenceTheorems, SequenceLemmas, TLAPS

(* Every group of variables that an action leaves alone is seen through.   *)
USE DEF auths, store, ui, bounds, history

(* A restart keeps the pending writes and their records. *)
LEMMA ForgetType ==
    ASSUME NEW q \in Seq(Mutation)
    PROVE  /\ Forget(q) \in Seq(Mutation)
           /\ DOMAIN Forget(q) = DOMAIN q
           /\ \A i \in DOMAIN q : Forget(q)[i].rec = q[i].rec
<1>1. DOMAIN q = 1..Len(q) /\ Len(q) \in Nat
  OBVIOUS
<1>2. \A i \in 1..Len(q) : q[i] \in Mutation
  OBVIOUS
<1>3. \A m \in Mutation : /\ [m EXCEPT !.live = FALSE] \in Mutation
                          /\ [m EXCEPT !.live = FALSE].rec = m.rec
  BY DEF Mutation, Write
<1>4. Forget(q) = [i \in 1..Len(q) |-> [q[i] EXCEPT !.live = FALSE]]
  BY <1>1 DEF Forget
<1>5. \A i \in 1..Len(q) : Forget(q)[i] = [q[i] EXCEPT !.live = FALSE]
  BY <1>4
<1>6. Forget(q) \in [1..Len(q) -> Mutation]
  BY <1>2, <1>3, <1>4
<1>7. Forget(q) \in Seq(Mutation)
  BY <1>1, <1>6, SeqDef
<1> QED
  BY <1>1, <1>2, <1>3, <1>5, <1>6, <1>7

(* A document with pending writes applied is in one of the three states. *)
LEMMA OverlayType ==
    ASSUME NEW base, NEW q, NEW u
    PROVE  Overlay(base, q, u) \in Status
  BY DEF Overlay, Status

(* The callbacks that the model builds are callbacks. *)
LEMMA CallbackType ==
    ASSUME NEW u \in Users \cup {Nobody}
    PROVE  /\ Credential(u) \in Callback
           /\ u \in Users => NilSnapshot(u) \in Callback
           /\ \A k \in {"credential", "login", "gotUser", "edit", "finish"} :
              \A rec \in Record \cup {NoRecord}, ok \in BOOLEAN :
                 IF k \in UpdateOp THEN rec # NoRecord => CallbackOf(k, u, rec, ok) \in Callback
                 ELSE u \in Users => CallbackOf(k, u, rec, ok) \in Callback
  BY DEF Credential, NilSnapshot, CallbackOf, Callback, Block, UpdateOp

(* The answer to a download is a callback. *)
LEMMA SnapshotType ==
    ASSUME NEW u \in Users, NEW s \in Status
    PROVE  Snapshot(u, s) \in Callback
  BY CallbackType, RecordAssumption DEF Snapshot, Record, UpdateOp

(* A step with or without a fault keeps the type of the counter. *)
LEMMA FaultType ==
    ASSUME TypeOK, NEW d \in Devices, Fault(d) \/ UNCHANGED faults
    PROVE  faults' \in [Devices -> Nat]
<1>1. faults \in [Devices -> Nat]
  BY DEF TypeOK
<1> QED
  BY <1>1 DEF Fault

(* Leaving a screen, or staying, keeps the type of view. *)
LEMMA LookType ==
    ASSUME TypeOK, NEW d \in Devices, UNCHANGED view \/ Look(d, "tabs")
    PROVE  view' \in [Devices -> {"tabs", "login", "edit", "finish"}]
<1>1. view \in [Devices -> {"tabs", "login", "edit", "finish"}]
  BY DEF TypeOK
<1> QED
  BY <1>1 DEF Look

(* Posting a callback, or not, keeps the type of the main queues. *)
LEMMA PostType ==
    ASSUME TypeOK, NEW d \in Devices, NEW c \in Callback, Post(d, c)
    PROVE  mainQ' \in [Devices -> Seq(Callback)]
<1>1. Append(mainQ[d], c) \in Seq(Callback)
  BY DEF TypeOK
<1> QED
  BY <1>1 DEF Post, TypeOK

(* Appending a write to one of the queues of a phone. *)
LEMMA WriteType ==
    ASSUME TypeOK, NEW d \in Devices, NEW u \in Users \cup {Nobody}, NEW m \in Mutation,
           writeQ' = [writeQ EXCEPT ![d][u] = Append(@, m)]
    PROVE  writeQ' \in [Devices -> [Users \cup {Nobody} -> Seq(Mutation)]]
<1>1. writeQ[d] \in [Users \cup {Nobody} -> Seq(Mutation)]
  BY DEF TypeOK
<1>2. Append(writeQ[d][u], m) \in Seq(Mutation)
  BY <1>1
<1>3. [writeQ[d] EXCEPT ![u] = Append(writeQ[d][u], m)]
        \in [Users \cup {Nobody} -> Seq(Mutation)]
  BY <1>1, <1>2
<1> QED
  BY <1>3 DEF TypeOK

(* A restart, after a crash or a trap, keeps the types. *)
LEMMA RestartedType ==
    ASSUME TypeOK, NEW d \in Devices, Restarted(d),
           taps' \in [Devices -> Nat], faults' \in [Devices -> Nat]
    PROVE  TypeOK'
<1>1. \A u \in Users \cup {Nobody} : Forget(writeQ[d][u]) \in Seq(Mutation)
  BY ForgetType DEF TypeOK
<1>2. writeQ' \in [Devices -> [Users \cup {Nobody} -> Seq(Mutation)]]
  BY <1>1 DEF Restarted, TypeOK
<1>3. shown' \in [Devices -> {"login", "finish", "active"}]
  BY DEF Restarted, TypeOK, Shown
<1>4. mainQ' \in [Devices -> Seq(Callback)]
  BY DEF Restarted, TypeOK
<1>5. stale' \in [Devices -> BOOLEAN]
  BY DEF Restarted, TypeOK, Updating
<1> QED
  BY <1>2, <1>3, <1>4, <1>5 DEF Restarted, TypeOK

(* TypeOK holds initially. *)
LEMMA InitType == Init => TypeOK
  BY DEF Init, TypeOK, Status, Account

(* What the user does keeps the types. *)
LEMMA UserStepType ==
    ASSUME TypeOK, NEW d \in Devices, UserStep(d)
    PROVE  TypeOK'
<1>1. CASE ProfileAppears(d) \/ Back(d)
  BY <1>1 DEF ProfileAppears, Back, Look, TypeOK, Shown
<1>2. CASE OpenLogin(d) \/ OpenEdit(d) \/ OpenFinish(d) \/ Cancel(d)
  BY <1>2 DEF OpenLogin, OpenEdit, OpenFinish, Cancel, Look, TypeOK
<1>3. CASE Resend(d)
  BY <1>3 DEF Resend, TypeOK, Account
<1>4. CASE LogOut(d)
  <2>1. mainQ' \in [Devices -> Seq(Callback)]
    BY <1>4, CallbackType, PostType DEF LogOut, TypeOK
  <2> QED
    BY <1>4, <2>1 DEF LogOut, Look, TypeOK
<1>5. ASSUME NEW kind \in {"signIn", "register"}, NEW u \in Users, AskAuth(d, kind, u)
      PROVE  TypeOK'
  <2>1. [kind |-> kind, user |-> u] \in Request
    BY DEF Request
  <2>2. requests' \in [Devices -> SUBSET Request]
    BY <1>5, <2>1 DEF AskAuth, TypeOK
  <2>3. taps' \in [Devices -> Nat]
    BY <1>5 DEF AskAuth, Tap, TypeOK
  <2> QED
    BY <1>5, <2>2, <2>3 DEF AskAuth, TypeOK
<1>6. ASSUME NEW op \in UpdateOp, Update(d, op)
      PROVE  TypeOK'
  <2>1. taps' \in [Devices -> Nat]
    BY <1>6 DEF Update, Tap, TypeOK
  <2>2. CASE auth[d] = Nobody
    BY <1>6, <2>1, <2>2, RestartedType DEF Update, TypeOK
  <2>3. CASE auth[d] # Nobody
    <3> DEFINE m == [op |-> op, doc |-> auth[d],
                     rec |-> Userobject(local[d], op), live |-> TRUE]
    <3>0. local[d] \in Record
      BY <1>6 DEF Update, TypeOK
    <3>1. Userobject(local[d], op) \in Record
      BY <3>0 DEF Userobject, Record
    <3>2. m \in Mutation
      BY <2>3, <3>1, RecordAssumption DEF TypeOK, Mutation, Write, Record
    <3>3. writeQ' = [writeQ EXCEPT ![d][fsUser[d]] = Append(@, m)]
      BY <1>6, <2>3 DEF Update
    <3> HIDE DEF m
    <3>4. writeQ' \in [Devices -> [Users \cup {Nobody} -> Seq(Mutation)]]
      BY <3>2, <3>3, WriteType DEF TypeOK
    <3>5. stale' \in [Devices -> BOOLEAN]
      BY <1>6, <2>3 DEF Update, TypeOK, Updating, Downloading
    <3> QED
      BY <1>6, <2>1, <2>3, <3>4, <3>5 DEF Update, TypeOK
  <2> QED
    BY <2>2, <2>3
<1> QED
  BY <1>1, <1>2, <1>3, <1>4, <1>5, <1>6 DEF UserStep

(* The answers of Auth keep the types. *)
LEMMA AuthAnswersType ==
    ASSUME TypeOK, NEW d \in Devices, NEW r \in Request, AuthAnswers(d, r)
    PROVE  TypeOK'
<1>0. r.user \in Users
  BY DEF Request
<1>1. requests' \in [Devices -> SUBSET Request]
  BY DEF AuthAnswers, TypeOK
<1>2. CASE SignedIn(d, r)
  <2>1. Credential(r.user) \in Callback
        /\ CallbackOf("login", r.user, NoRecord, account[r.user] = "verified") \in Callback
    BY <1>0, CallbackType DEF UpdateOp
  <2>2. mainQ' \in [Devices -> Seq(Callback)]
    BY <1>2, <2>1 DEF SignedIn, TypeOK
  <2>3. crossed' \in [Devices -> BOOLEAN]
    BY <1>2 DEF SignedIn, TypeOK
  <2> QED
    BY <1>0, <1>1, <1>2, <2>2, <2>3 DEF AuthAnswers, SignedIn, TypeOK
<1>3. CASE Registered(d, r)
  <2>1. mainQ' \in [Devices -> Seq(Callback)]
    BY <1>0, <1>3, CallbackType, PostType DEF Registered
  <2>2. crossed' \in [Devices -> BOOLEAN]
    BY <1>3 DEF Registered, TypeOK
  <2>3. account' \in [Users -> Account]
    <3>1. account \in [Users -> Account]
      BY DEF TypeOK
    <3>2. \/ account' = [account EXCEPT ![r.user] = "mailed"]
          \/ account' = [account EXCEPT ![r.user] = "unverified"]
      BY <1>3 DEF Registered
    <3> QED
      BY <1>0, <3>1, <3>2 DEF Account
  <2>4. faults' \in [Devices -> Nat]
    BY <1>3, FaultType DEF Registered
  <2> QED
    BY <1>0, <1>1, <1>3, <2>1, <2>2, <2>3, <2>4 DEF AuthAnswers, Registered, TypeOK
<1>4. CASE Refused(d, r) \/ Lost(d)
  <2>1. faults' \in [Devices -> Nat]
    BY <1>4, FaultType DEF Refused, Lost
  <2> QED
    BY <1>1, <1>4, <2>1 DEF AuthAnswers, Refused, Lost, TypeOK
<1> QED
  BY <1>2, <1>3, <1>4 DEF AuthAnswers

(* The answer to a download keeps the types. *)
LEMMA ReadAnsweredType ==
    ASSUME TypeOK, NEW d \in Devices, NEW u \in Users, ReadAnswered(d, u)
    PROVE  TypeOK'
<1>1. \E c \in Callback : Post(d, c)
  <2>1. \A b, q : Snapshot(u, Overlay(b, q, u)) \in Callback
    BY SnapshotType, OverlayType
  <2>2. NilSnapshot(u) \in Callback
    BY CallbackType
  <2> QED
    BY <2>1, <2>2 DEF ReadAnswered
<1>2. mainQ' \in [Devices -> Seq(Callback)]
  BY <1>1, PostType
<1>3. reads' \in [Devices -> [Users -> Nat]]
  BY DEF ReadAnswered, TypeOK
<1>4. cache' \in [Devices -> [Users -> Status]]
  <2>1. cache \in [Devices -> [Users -> Status]] /\ doc[u] \in Status
    BY DEF TypeOK
  <2>2. UNCHANGED cache \/ cache' = [cache EXCEPT ![d][u] = doc[u]]
    BY DEF ReadAnswered
  <2> QED
    BY <2>1, <2>2
<1>6. faults' \in [Devices -> Nat]
  BY FaultType DEF ReadAnswered
<1>5. stale' \in [Devices -> BOOLEAN]
  BY DEF ReadAnswered, TypeOK, Updating
<1> QED
  BY <1>2, <1>3, <1>4, <1>5, <1>6 DEF ReadAnswered, TypeOK

(* An account given up keeps the types. *)
LEMMA RevokedType ==
    ASSUME TypeOK, NEW d \in Devices, Revoked(d)
    PROVE  TypeOK'
<1>1. mainQ' \in [Devices -> Seq(Callback)]
  BY CallbackType, PostType DEF Revoked
<1>2. faults' \in [Devices -> Nat]
  BY FaultType DEF Revoked
<1> QED
  BY <1>1, <1>2 DEF Revoked, TypeOK

(* A pending write that is answered keeps the types. *)
LEMMA CommitType ==
    ASSUME TypeOK, NEW d \in Devices, Commit(d)
    PROVE  TypeOK'
<1> DEFINE u == fsUser[d]
           q == writeQ[d][u]
           m == Head(q)
<1>1. u \in Users \cup {Nobody} /\ q \in Seq(Mutation) /\ q # <<>>
  <2>1. q # <<>>
    BY DEF Commit
  <2>2. u \in Users \cup {Nobody} /\ writeQ[d] \in [Users \cup {Nobody} -> Seq(Mutation)]
    BY DEF TypeOK
  <2> QED
    BY <2>1, <2>2
<1>2. m \in Mutation /\ Tail(q) \in Seq(Mutation)
  BY <1>1
<1>3. writeQ' = [writeQ EXCEPT ![d][u] = Tail(@)]
  BY DEF Commit
<1>4. writeQ' \in [Devices -> [Users \cup {Nobody} -> Seq(Mutation)]]
  <2>1. writeQ[d] \in [Users \cup {Nobody} -> Seq(Mutation)]
    BY DEF TypeOK
  <2>2. [writeQ[d] EXCEPT ![u] = Tail(q)] \in [Users \cup {Nobody} -> Seq(Mutation)]
    BY <1>1, <1>2, <2>1
  <2> QED
    BY <1>3, <2>2 DEF TypeOK
<1>5. \/ UNCHANGED mainQ
      \/ \E ok \in BOOLEAN : m.live /\ Post(d, Answered(m, ok))
  BY DEF Commit
<1>6. mainQ' \in [Devices -> Seq(Callback)]
  <2>1. m.op \in UpdateOp \cup {"create"} /\ m.rec \in Record \cup {NoRecord}
        /\ m.doc \in Users
    BY <1>2 DEF Mutation, Write
  <2>2. CASE UNCHANGED mainQ
    BY <2>2 DEF TypeOK
  <2>3. ASSUME NEW ok \in BOOLEAN, m.live, Post(d, Answered(m, ok))
        PROVE  mainQ' \in [Devices -> Seq(Callback)]
    <3>1. m.op \in UpdateOp /\ m.rec # NoRecord
      BY <1>2, <2>3 DEF Mutation
    <3>2. Answered(m, ok) \in Callback
      BY <2>1, <3>1, CallbackType DEF Answered, UpdateOp
    <3> QED
      BY <2>3, <3>2, PostType
  <2> QED
    BY <1>5, <2>2, <2>3
<1>7. doc' \in [Users -> Status] /\ cache' \in [Devices -> [Users -> Status]]
  <2>1. m.doc \in Users
    BY <1>2 DEF Mutation, Write
  <2>2. \A s \in Status : Applied(m, s) \in Status
    BY DEF Applied, Status
  <2>3. doc \in [Users -> Status] /\ cache \in [Devices -> [Users -> Status]]
    BY DEF TypeOK
  <2>4. CASE UNCHANGED <<doc, cache>>
    BY <2>3, <2>4
  <2>5. CASE /\ doc' = [doc EXCEPT ![m.doc] = Applied(m, @)]
             /\ cache' = [cache EXCEPT ![d][m.doc] = doc'[m.doc]]
    <3>1. doc' \in [Users -> Status]
      BY <2>1, <2>2, <2>3, <2>5
    <3> QED
      BY <2>1, <2>3, <2>5, <3>1
  <2> QED
    BY <2>4, <2>5 DEF Commit
<1>8. stale' \in [Devices -> BOOLEAN]
  BY DEF Commit, TypeOK
<1>9. faults' \in [Devices -> Nat]
  BY FaultType DEF Commit
<1> QED
  BY <1>4, <1>6, <1>7, <1>8, <1>9 DEF Commit, TypeOK

(* Every callback keeps the types. *)
LEMMA RunCallbackType ==
    ASSUME TypeOK, NEW d \in Devices, RunCallback(d)
    PROVE  TypeOK'
<1> DEFINE c == Head(mainQ[d])
<1>1. c \in Callback /\ Tail(mainQ[d]) \in Seq(Callback)
  BY DEF RunCallback, TypeOK
<1>2. mainQ' \in [Devices -> Seq(Callback)]
  BY <1>1 DEF RunCallback, TypeOK
<1>3. /\ c.user \in Users \cup {Nobody} /\ c.rec \in Record \cup {NoRecord}
      /\ c.kind \in {"login", "gotUser"} => c.user \in Users
  BY <1>1 DEF Callback, Block
<1>4. CASE RunCredential(d, c)
  BY <1>2, <1>3, <1>4 DEF RunCredential, RunCallback, TypeOK
<1>5. CASE RunLogin(d, c)
  <2>1. reads' \in [Devices -> [Users -> Nat]]
    <3>1. c.user \in Users /\ reads \in [Devices -> [Users -> Nat]]
      BY <1>3, <1>5 DEF RunLogin, TypeOK
    <3>2. UNCHANGED reads \/ reads' = [reads EXCEPT ![d][c.user] = @ + 1]
      BY <1>5 DEF RunLogin
    <3> QED
      BY <3>1, <3>2
  <2>2. view' \in [Devices -> {"tabs", "login", "edit", "finish"}]
    BY <1>5, LookType DEF RunLogin
  <2> QED
    BY <1>2, <1>5, <2>1, <2>2 DEF RunLogin, RunCallback, TypeOK
<1>6. CASE RunGotUser(d, c)
  <2>1. c.user \in Users
    BY <1>3, <1>6 DEF RunGotUser
  <2>2. local' \in [Devices -> Record \cup {NoRecord}]
    <3>1. FreshUser(c.user) \in Record
      BY <2>1 DEF FreshUser, Record
    <3>2. \E l \in Record \cup {NoRecord} :
            UNCHANGED local \/ local' = [local EXCEPT ![d] = l]
      BY <1>3, <1>6, <3>1 DEF RunGotUser
    <3>3. local \in [Devices -> Record \cup {NoRecord}]
      BY DEF TypeOK
    <3> QED
      BY <3>2, <3>3
  <2>3. writeQ' \in [Devices -> [Users \cup {Nobody} -> Seq(Mutation)]]
    <3> DEFINE m == [op |-> "create", doc |-> c.user, rec |-> NoRecord, live |-> FALSE]
    <3>1. m \in Mutation /\ fsUser[d] \in Users \cup {Nobody}
      BY <2>1 DEF Mutation, Write, UpdateOp, TypeOK
    <3>2. \/ UNCHANGED writeQ
          \/ writeQ' = [writeQ EXCEPT ![d][fsUser[d]] = Append(@, m)]
      BY <1>6 DEF RunGotUser
    <3> HIDE DEF m
    <3> QED
      BY <3>1, <3>2, WriteType DEF TypeOK
  <2>4. stale' \in [Devices -> BOOLEAN]
    BY <1>6 DEF RunGotUser, TypeOK
  <2> QED
    BY <1>2, <1>6, <2>2, <2>3, <2>4 DEF RunGotUser, RunCallback, TypeOK
<1>7. CASE RunUpdated(d, c)
  <2>1. local' \in [Devices -> Record \cup {NoRecord}]
    BY <1>3, <1>7 DEF RunUpdated, TypeOK
  <2>2. view' \in [Devices -> {"tabs", "login", "edit", "finish"}]
    BY <1>7, LookType DEF RunUpdated
  <2> QED
    BY <1>2, <1>7, <2>1, <2>2 DEF RunUpdated, RunCallback, TypeOK
<1> QED
  BY <1>4, <1>5, <1>6, <1>7 DEF RunCallback

(* TypeOK is inductive. *)
LEMMA NextType == TypeOK /\ [Next]_vars => TypeOK'
<1> SUFFICES ASSUME TypeOK, [Next]_vars PROVE TypeOK'
  OBVIOUS
<1>1. ASSUME NEW d \in Devices, UserStep(d) PROVE TypeOK'
  BY <1>1, UserStepType
<1>2. ASSUME NEW d \in Devices, ServiceStep(d) PROVE TypeOK'
  BY <1>2, AuthAnswersType, ReadAnsweredType, CommitType, RevokedType DEF ServiceStep
<1>3. ASSUME NEW d \in Devices, RunCallback(d) PROVE TypeOK'
  BY <1>3, RunCallbackType
<1>4. ASSUME NEW d \in Devices, Crash(d) PROVE TypeOK'
  <2>1. faults' \in [Devices -> Nat] /\ taps' \in [Devices -> Nat]
    BY <1>4, FaultType DEF Crash, TypeOK
  <2> QED
    BY <1>4, <2>1, RestartedType DEF Crash
<1>5. ASSUME NEW u \in Users, VerifyEmail(u) PROVE TypeOK'
  BY <1>5 DEF VerifyEmail, TypeOK, Account
<1>6. CASE UNCHANGED vars
  BY <1>6 DEF vars, TypeOK
<1> QED
  BY <1>1, <1>2, <1>3, <1>4, <1>5, <1>6 DEF Next

(* Every reachable state of Session has the types the code's data has. *)
THEOREM TypeCorrect == Spec => []TypeOK
  BY InitType, NextType, PTL DEF Spec

-----------------------------------------------------------------------------
(* Whose record a phone holds, or still works on: only a verified sign-in    *)
(* adds a user to it.                                                        *)

(* An appended sequence holds the old elements and the new one. *)
LEMMA AppendElements ==
    ASSUME NEW S, NEW q \in Seq(S), NEW e \in S
    PROVE  \A i \in DOMAIN Append(q, e) :
              Append(q, e)[i] = e \/ (i \in DOMAIN q /\ Append(q, e)[i] = q[i])
  OBVIOUS

(* Appending a write to one of the queues of a phone adds no other write. *)
LEMMA WriteElements ==
    ASSUME TypeOK, NEW d \in Devices, NEW u \in Users \cup {Nobody}, NEW m \in Mutation,
           writeQ' = [writeQ EXCEPT ![d][u] = Append(@, m)],
           NEW v \in Users \cup {Nobody}
    PROVE  \A i \in DOMAIN writeQ'[d][v] :
              \/ writeQ'[d][v][i] = m
              \/ i \in DOMAIN writeQ[d][v] /\ writeQ'[d][v][i] = writeQ[d][v][i]
<1>1. writeQ[d][v] \in Seq(Mutation)
  BY DEF TypeOK
<1>2. writeQ'[d][v] = writeQ[d][v] \/ writeQ'[d][v] = Append(writeQ[d][v], m)
  BY DEF TypeOK
<1>3. CASE writeQ'[d][v] = writeQ[d][v]
  BY <1>3
<1>4. CASE writeQ'[d][v] = Append(writeQ[d][v], m)
  BY <1>1, <1>4, AppendElements
<1> QED
  BY <1>2, <1>3, <1>4

(* What is left on a phone depends on four of its variables only. *)
LEMMA ResidueElsewhere ==
    ASSUME NEW e \in Devices,
           local'[e] = local[e], reads'[e] = reads[e],
           mainQ'[e] = mainQ[e], writeQ'[e] = writeQ[e]
    PROVE  Residue(e)' = Residue(e)
  BY DEF Residue

(* A step of phone d that posts a callback about nobody new, and changes     *)
(* nothing else.                                                             *)
LEMMA ResiduePost ==
    ASSUME TypeOK, NEW d \in Devices, NEW c \in Callback, Post(d, c),
           local'[d] = local[d], writeQ'[d] = writeQ[d],
           \A u \in Users : reads'[d][u] > 0 => reads[d][u] > 0
    PROVE  Residue(d)' \subseteq Residue(d) \cup {u \in Users : Concerns(c, u)}
<1>1. mainQ[d] \in Seq(Callback) /\ mainQ'[d] = Append(mainQ[d], c)
  BY DEF Post, TypeOK
<1>2. \A i \in DOMAIN mainQ'[d] :
        mainQ'[d][i] = c \/ (i \in DOMAIN mainQ[d] /\ mainQ'[d][i] = mainQ[d][i])
  BY <1>1
<1> QED
  BY <1>2 DEF Residue

(* A restart leaves no more than there was. *)
LEMMA ResidueRestarted ==
    ASSUME TypeOK, NEW d \in Devices, Restarted(d)
    PROVE  Residue(d)' \subseteq Residue(d)
<1>1. /\ local'[d] = local[d]
      /\ mainQ'[d] = <<>>
      /\ reads'[d] = [u \in Users |-> 0]
      /\ writeQ'[d] = [u \in Users \cup {Nobody} |-> Forget(writeQ[d][u])]
  BY DEF Restarted, TypeOK
<1>2. \A v \in Users \cup {Nobody} :
        /\ DOMAIN writeQ'[d][v] = DOMAIN writeQ[d][v]
        /\ \A i \in DOMAIN writeQ[d][v] : writeQ'[d][v][i].rec = writeQ[d][v][i].rec
  BY <1>1, ForgetType DEF TypeOK
<1>3. DOMAIN mainQ'[d] = {} /\ \A u \in Users : ~(reads'[d][u] > 0)
  BY <1>1
<1>4. \A u \in Users : \A v \in Users \cup {Nobody} : \A i \in DOMAIN writeQ'[d][v] :
        IsOf(writeQ'[d][v][i].rec, u) =>
           i \in DOMAIN writeQ[d][v] /\ IsOf(writeQ[d][v][i].rec, u)
  BY <1>2
<1>5. local'[d] = local[d]
  BY <1>1
<1> QED
  BY <1>3, <1>4, <1>5 DEF Residue

(* What the user does leaves no more than there was. *)
LEMMA ResidueUserStep ==
    ASSUME TypeOK, NEW d \in Devices, UserStep(d)
    PROVE  Residue(d)' \subseteq Residue(d)
<1>1. CASE ProfileAppears(d) \/ Back(d) \/ OpenLogin(d) \/ OpenEdit(d)
           \/ OpenFinish(d) \/ Cancel(d) \/ Resend(d)
  <2>1. UNCHANGED <<local, reads, mainQ, writeQ>>
    BY <1>1 DEF ProfileAppears, Back, OpenLogin, OpenEdit, OpenFinish, Cancel, Resend
  <2> QED
    BY <2>1, ResidueElsewhere
<1>2. ASSUME NEW kind, NEW u \in Users, AskAuth(d, kind, u)
      PROVE  Residue(d)' \subseteq Residue(d)
  BY <1>2, ResidueElsewhere DEF AskAuth
<1>3. CASE LogOut(d)
  <2>1. local'[d] = NoRecord /\ reads' = reads /\ writeQ' = writeQ
    BY <1>3 DEF LogOut, TypeOK
  <2>2. mainQ' = mainQ \/ Post(d, Credential(Nobody))
    BY <1>3 DEF LogOut
  <2>3. \A i \in DOMAIN mainQ'[d] :
           \/ mainQ'[d][i] = Credential(Nobody)
           \/ i \in DOMAIN mainQ[d] /\ mainQ'[d][i] = mainQ[d][i]
    <3>1. mainQ[d] \in Seq(Callback) /\ Credential(Nobody) \in Callback
      BY CallbackType DEF TypeOK
    <3>2. mainQ'[d] = mainQ[d] \/ mainQ'[d] = Append(mainQ[d], Credential(Nobody))
      BY <2>2 DEF Post, TypeOK
    <3> QED
      BY <3>1, <3>2, AppendElements
  <2>4. \A u \in Users : ~Concerns(Credential(Nobody), u)
    BY DEF Concerns, Credential, CallbackOf, IsOf
  <2> QED
    BY <2>1, <2>3, <2>4 DEF Residue, IsOf
<1>4. ASSUME NEW op \in UpdateOp, Update(d, op)
      PROVE  Residue(d)' \subseteq Residue(d)
  <2>1. CASE auth[d] = Nobody
    BY <1>4, <2>1, ResidueRestarted DEF Update
  <2>2. CASE auth[d] # Nobody
    <3> DEFINE m == [op |-> op, doc |-> auth[d],
                     rec |-> Userobject(local[d], op), live |-> TRUE]
    <3>1. local[d] \in Record /\ m.rec.owner = local[d].owner
      BY <1>4 DEF Update, TypeOK, Userobject, Record
    <3>2. writeQ' = [writeQ EXCEPT ![d][fsUser[d]] = Append(@, m)]
      BY <1>4, <2>2 DEF Update
    <3>6. m \in Mutation /\ fsUser[d] \in Users \cup {Nobody}
      <4>1. m.rec \in Record
        BY <3>1 DEF Userobject, Record
      <4> QED
        BY <2>2, <4>1, RecordAssumption DEF TypeOK, Mutation, Write, Record
    <3> HIDE DEF m
    <3>3. \A v \in Users \cup {Nobody} : \A i \in DOMAIN writeQ'[d][v] :
             \/ writeQ'[d][v][i] = m
             \/ i \in DOMAIN writeQ[d][v] /\ writeQ'[d][v][i] = writeQ[d][v][i]
      BY <3>2, <3>6, WriteElements
    <3>4. local' = local /\ mainQ' = mainQ /\ reads' = reads
      BY <1>4, <2>2 DEF Update
    <3>5. local[d] # NoRecord
      BY <1>4 DEF Update
    <3> QED
      BY <3>1, <3>3, <3>4, <3>5 DEF Residue, IsOf
  <2> QED
    BY <2>1, <2>2
<1> QED
  BY <1>1, <1>2, <1>3, <1>4 DEF UserStep

(* Auth's answers: a verified sign-in concerns its user. *)
LEMMA ResidueAuthAnswers ==
    ASSUME TypeOK, NEW d \in Devices, NEW r \in Request, AuthAnswers(d, r)
    PROVE  /\ ~SignedIn(d, r) => Residue(d)' \subseteq Residue(d)
           /\ SignedIn(d, r) => Residue(d)' \subseteq Residue(d) \cup
                 {u \in {r.user} : account[u] = "verified"}
<1>0. UNCHANGED <<local, reads, writeQ>> /\ r.user \in Users
  BY DEF AuthAnswers, Request
<1>1. CASE SignedIn(d, r)
  <2> DEFINE a == Credential(r.user)
             b == CallbackOf("login", r.user, NoRecord, account[r.user] = "verified")
  <2>1. a \in Callback /\ b \in Callback
    BY <1>0, CallbackType DEF UpdateOp
  <2>2. mainQ[d] \in Seq(Callback) /\ mainQ'[d] = mainQ[d] \o <<a, b>>
    BY <1>1 DEF SignedIn, TypeOK
  <2>3. \A u \in Users : /\ ~Concerns(a, u)
                         /\ Concerns(b, u) => u = r.user /\ account[u] = "verified"
    BY DEF Concerns, Credential, CallbackOf, IsOf
  <2> HIDE DEF a, b
  <2>4. \A i \in DOMAIN mainQ'[d] :
          \/ mainQ'[d][i] \in {a, b}
          \/ i \in DOMAIN mainQ[d] /\ mainQ'[d][i] = mainQ[d][i]
    BY <2>1, <2>2
  <2>5. \A u \in Residue(d)' : u \in Residue(d) \/ (u = r.user /\ account[u] = "verified")
    BY <1>0, <2>3, <2>4 DEF Residue
  <2> QED
    BY <1>1, <2>5
<1>2. CASE Registered(d, r)
  <2>1. \A u \in Users : ~Concerns(Credential(r.user), u)
    BY DEF Concerns, Credential, CallbackOf, IsOf
  <2>2. Residue(d)' \subseteq Residue(d)
    BY <1>0, <1>2, <2>1, ResiduePost, CallbackType DEF Registered
  <2> QED
    BY <1>2, <2>2 DEF Registered, SignedIn
<1>3. CASE Refused(d, r) \/ Lost(d)
  <2>1. Residue(d)' = Residue(d)
    BY <1>0, <1>3, ResidueElsewhere DEF Refused, Lost
  <2> QED
    BY <2>1
<1> QED
  BY <1>1, <1>2, <1>3 DEF AuthAnswers

(* A download that is answered was about the same user before. *)
LEMMA ResidueReadAnswered ==
    ASSUME TypeOK, NEW d \in Devices, NEW u \in Users, ReadAnswered(d, u)
    PROVE  Residue(d)' \subseteq Residue(d)
<1>1. \E c \in Callback :
         Post(d, c) /\ \A w \in Users : Concerns(c, w) => w = u
  <2>1. \A s \in Status : /\ Snapshot(u, s) \in Callback
                          /\ \A w \in Users : Concerns(Snapshot(u, s), w) => w = u
    BY SnapshotType DEF Snapshot, CallbackOf, Concerns, IsOf
  <2>2. /\ NilSnapshot(u) \in Callback
        /\ \A w \in Users : Concerns(NilSnapshot(u), w) => w = u
    BY CallbackType DEF NilSnapshot, CallbackOf, Concerns, IsOf
  <2> QED
    BY <2>1, <2>2, OverlayType DEF ReadAnswered
<1>2. UNCHANGED <<local, writeQ>>
  BY DEF ReadAnswered
<1>3. u \in Residue(d)
  BY DEF ReadAnswered, Residue
<1>4. \A w \in Users : reads'[d][w] > 0 => reads[d][w] > 0
  BY DEF ReadAnswered, TypeOK
<1> QED
  BY <1>1, <1>2, <1>3, <1>4, ResiduePost

(* The completion of an update carries the record the update did. *)
LEMMA ResidueCommit ==
    ASSUME TypeOK, NEW d \in Devices, Commit(d)
    PROVE  Residue(d)' \subseteq Residue(d)
<1> DEFINE v == fsUser[d]
           q == writeQ[d][v]
           m == Head(q)
<1>1. v \in Users \cup {Nobody} /\ q \in Seq(Mutation) /\ q # <<>>
  <2>1. q # <<>>
    BY DEF Commit
  <2>2. v \in Users \cup {Nobody} /\ writeQ[d] \in [Users \cup {Nobody} -> Seq(Mutation)]
    BY DEF TypeOK
  <2> QED
    BY <2>1, <2>2
<1>2. 1 \in DOMAIN q /\ m = q[1] /\ m \in Mutation
  BY <1>1
<1>3. \A u \in Users : IsOf(m.rec, u) => u \in Residue(d)
  BY <1>1, <1>2 DEF Residue
<1>4. writeQ' = [writeQ EXCEPT ![d][v] = Tail(@)]
  BY DEF Commit
<1>5. \A w \in Users \cup {Nobody} : \A i \in DOMAIN writeQ'[d][w] :
        \E j \in DOMAIN writeQ[d][w] : writeQ'[d][w][i] = writeQ[d][w][j]
  <2>1. \A i \in DOMAIN Tail(q) : \E j \in DOMAIN q : Tail(q)[i] = q[j]
    BY <1>1
  <2>2. \A w \in Users \cup {Nobody} :
           writeQ'[d][w] = IF w = v THEN Tail(q) ELSE writeQ[d][w]
    BY <1>1, <1>4 DEF TypeOK
  <2> QED
    BY <2>1, <2>2
<1>6. \A i \in DOMAIN mainQ'[d] : \A u \in Users :
        Concerns(mainQ'[d][i], u) =>
           \/ IsOf(m.rec, u)
           \/ \E j \in DOMAIN mainQ[d] : Concerns(mainQ[d][j], u)
  <2>1. CASE mainQ' = mainQ
    BY <2>1
  <2>2. ASSUME NEW ok \in BOOLEAN, m.live, Post(d, Answered(m, ok))
        PROVE  \A i \in DOMAIN mainQ'[d] : \A u \in Users :
                  Concerns(mainQ'[d][i], u) =>
                     \/ IsOf(m.rec, u)
                     \/ \E j \in DOMAIN mainQ[d] : Concerns(mainQ[d][j], u)
    <3> DEFINE c == Answered(m, ok)
    <3>1. m.op \in UpdateOp /\ m.rec \in Record
      BY <1>2, <2>2 DEF Mutation, Write
    <3>2. c \in Callback
      BY <3>1, CallbackType, RecordAssumption DEF Answered, UpdateOp, Record
    <3>3. \A u \in Users : Concerns(c, u) => IsOf(m.rec, u)
      BY <3>1 DEF Concerns, Answered, CallbackOf, UpdateOp
    <3>4. mainQ[d] \in Seq(Callback) /\ mainQ'[d] = Append(mainQ[d], c)
      BY <2>2 DEF Post, TypeOK
    <3> HIDE DEF c
    <3> QED
      BY <3>2, <3>3, <3>4, AppendElements
  <2> QED
    BY <2>1, <2>2 DEF Commit
<1>7. UNCHANGED <<local, reads>>
  BY DEF Commit
<1> QED
  BY <1>3, <1>5, <1>6, <1>7 DEF Residue

(* A callback stores or downloads what it was about. *)
LEMMA ResidueRunCallback ==
    ASSUME TypeOK, NEW d \in Devices, RunCallback(d)
    PROVE  Residue(d)' \subseteq Residue(d)
<1> DEFINE c == Head(mainQ[d])
<1>1. /\ mainQ[d] \in Seq(Callback) /\ mainQ[d] # <<>>
      /\ mainQ'[d] = Tail(mainQ[d])
  BY DEF RunCallback, TypeOK
<1>2. 1 \in DOMAIN mainQ[d] /\ c = mainQ[d][1] /\ c \in Callback
  BY <1>1
<1>3. \A i \in DOMAIN mainQ'[d] : \E j \in DOMAIN mainQ[d] : mainQ'[d][i] = mainQ[d][j]
  BY <1>1
<1>4. \A u \in Users : Concerns(c, u) => u \in Residue(d)
  BY <1>2 DEF Residue
<1>5. \A u \in Users : \A i \in DOMAIN mainQ'[d] :
        Concerns(mainQ'[d][i], u) => u \in Residue(d)
  BY <1>3 DEF Residue
<1>6. c.kind \in {"login", "gotUser"} => c.user \in Users
  BY <1>2 DEF Callback
<1> HIDE DEF c
<1>7. CASE RunCredential(d, c)
  <2>1. UNCHANGED <<local, reads, writeQ>>
    BY <1>7 DEF RunCredential
  <2> QED
    BY <1>5, <2>1 DEF Residue
<1>8. CASE RunLogin(d, c)
  <2>1. UNCHANGED <<local, writeQ>>
    BY <1>8 DEF RunLogin
  <2>2. \A u \in Users : reads'[d][u] > 0 => reads[d][u] > 0 \/ Concerns(c, u)
    BY <1>6, <1>8 DEF RunLogin, TypeOK, Concerns
  <2> QED
    BY <1>4, <1>5, <2>1, <2>2 DEF Residue
<1>9. CASE RunGotUser(d, c)
  <2> DEFINE m == [op |-> "create", doc |-> c.user, rec |-> NoRecord, live |-> FALSE]
  <2>1. UNCHANGED reads
    BY <1>9 DEF RunGotUser
  <2>2. \A u \in Users : IsOf(local'[d], u) => IsOf(local[d], u) \/ Concerns(c, u)
    BY <1>9 DEF RunGotUser, TypeOK, Concerns, IsOf, FreshUser
  <2>3. UNCHANGED writeQ \/ writeQ' = [writeQ EXCEPT ![d][fsUser[d]] = Append(@, m)]
    BY <1>9 DEF RunGotUser
  <2>4. m \in Mutation /\ fsUser[d] \in Users \cup {Nobody} /\ m.rec = NoRecord
    BY <1>6, <1>9 DEF RunGotUser, Mutation, Write, UpdateOp, TypeOK
  <2> HIDE DEF m
  <2>5. \A u \in Users : \A v \in Users \cup {Nobody} : \A i \in DOMAIN writeQ'[d][v] :
          IsOf(writeQ'[d][v][i].rec, u) =>
             i \in DOMAIN writeQ[d][v] /\ IsOf(writeQ[d][v][i].rec, u)
    <3>1. CASE UNCHANGED writeQ
      BY <3>1
    <3>2. CASE writeQ' = [writeQ EXCEPT ![d][fsUser[d]] = Append(@, m)]
      BY <2>4, <3>2, WriteElements DEF IsOf
    <3> QED
      BY <2>3, <3>1, <3>2
  <2> QED
    BY <1>4, <1>5, <2>1, <2>2, <2>5 DEF Residue
<1>10. CASE RunUpdated(d, c)
  <2>1. UNCHANGED <<reads, writeQ>>
    BY <1>10 DEF RunUpdated
  <2>2. \A u \in Users : IsOf(local'[d], u) => IsOf(local[d], u) \/ Concerns(c, u)
    BY <1>10 DEF RunUpdated, TypeOK, Concerns
  <2> QED
    BY <1>4, <1>5, <2>1, <2>2 DEF Residue
<1> QED
  BY <1>7, <1>8, <1>9, <1>10 DEF RunCallback, c

(* A step of phone d is not seen by phone e. *)
SameOn(e) ==
    /\ local'[e] = local[e] /\ reads'[e] = reads[e]
    /\ mainQ'[e] = mainQ[e] /\ writeQ'[e] = writeQ[e]
    /\ auth'[e] = auth[e] /\ crossed'[e] = crossed[e]

(* A step of one phone leaves every other phone as it is. *)
LEMMA OtherPhone ==
    ASSUME TypeOK, NEW d \in Devices, NEW e \in Devices, d # e,
           UserStep(d) \/ ServiceStep(d) \/ RunCallback(d) \/ Crash(d)
    PROVE  SameOn(e)
<1> USE DEF SameOn
<1>1. CASE ProfileAppears(d) \/ Back(d) \/ OpenLogin(d) \/ OpenEdit(d)
           \/ OpenFinish(d) \/ Cancel(d) \/ Resend(d)
  BY <1>1 DEF ProfileAppears, Back, OpenLogin, OpenEdit, OpenFinish, Cancel, Resend
<1>2. ASSUME NEW kind, NEW u \in Users, AskAuth(d, kind, u) PROVE SameOn(e)
  BY <1>2 DEF AskAuth
<1>3. CASE LogOut(d)
  BY <1>3 DEF LogOut, Post, TypeOK
<1>4. Restarted(d) => SameOn(e)
  BY DEF Restarted, TypeOK
<1>5. ASSUME NEW op \in UpdateOp, Update(d, op) PROVE SameOn(e)
  BY <1>4, <1>5 DEF Update, TypeOK
<1>6. ASSUME NEW r \in Request, AuthAnswers(d, r) PROVE SameOn(e)
  <2>1. UNCHANGED <<local, reads, writeQ>>
    BY <1>6 DEF AuthAnswers
  <2>2. mainQ'[e] = mainQ[e] /\ auth'[e] = auth[e] /\ crossed'[e] = crossed[e]
    BY <1>6 DEF AuthAnswers, SignedIn, Registered, Refused, Lost, Post, TypeOK
  <2> QED
    BY <2>1, <2>2
<1>7. ASSUME NEW u \in Users, ReadAnswered(d, u) PROVE SameOn(e)
  BY <1>7 DEF ReadAnswered, Post, TypeOK
<1>8. CASE Commit(d)
  <2> DEFINE w == [writeQ[d] EXCEPT ![fsUser[d]] = Tail(@)]
  <2>1. UNCHANGED <<local, reads, auth, crossed>> /\ writeQ' = [writeQ EXCEPT ![d] = w]
    BY <1>8 DEF Commit
  <2>2. mainQ' = mainQ \/ \E c : mainQ' = [mainQ EXCEPT ![d] = Append(@, c)]
    BY <1>8 DEF Commit, Post
  <2> HIDE DEF w
  <2> QED
    BY <2>1, <2>2 DEF TypeOK
<1>9. CASE Revoked(d)
  BY <1>9 DEF Revoked, Post, TypeOK
<1>10. CASE RunCallback(d)
  <2> DEFINE c == Head(mainQ[d])
  <2>1. UNCHANGED <<auth, crossed>> /\ mainQ'[e] = mainQ[e]
    BY <1>10 DEF RunCallback, RunCredential, RunLogin, RunGotUser, RunUpdated, TypeOK
  <2>2. RunCredential(d, c) \/ RunLogin(d, c) \/ RunGotUser(d, c) \/ RunUpdated(d, c)
    BY <1>10 DEF RunCallback
  <2> HIDE DEF c
  <2>3. CASE RunCredential(d, c) \/ RunLogin(d, c)
    BY <2>1, <2>3 DEF RunCredential, RunLogin, TypeOK
  <2>4. CASE RunGotUser(d, c)
    BY <2>1, <2>4 DEF RunGotUser, TypeOK
  <2>5. CASE RunUpdated(d, c)
    BY <2>1, <2>5 DEF RunUpdated, TypeOK
  <2> QED
    BY <2>2, <2>3, <2>4, <2>5
<1>11. CASE Crash(d)
  BY <1>4, <1>11 DEF Crash
<1> QED
  BY <1>1, <1>2, <1>3, <1>5, <1>6, <1>7, <1>8, <1>9, <1>10, <1>11
     DEF UserStep, ServiceStep

(* Every step, seen from every phone. *)
LEMMA ResidueStep ==
    ASSUME TypeOK, [Next]_vars, NEW e \in Devices
    PROVE  \/ Residue(e)' \subseteq Residue(e)
           \/ \E r \in Request :
                 /\ SignedIn(e, r)
                 /\ Residue(e)' \subseteq Residue(e) \cup
                       {u \in {r.user} : account[u] = "verified"}
<1>1. CASE UNCHANGED vars
  BY <1>1, ResidueElsewhere DEF vars
<1>2. ASSUME NEW u \in Users, VerifyEmail(u)
      PROVE  Residue(e)' \subseteq Residue(e)
  BY <1>2, ResidueElsewhere DEF VerifyEmail
<1>3. ASSUME NEW d \in Devices, d # e,
             UserStep(d) \/ ServiceStep(d) \/ RunCallback(d) \/ Crash(d)
      PROVE  Residue(e)' \subseteq Residue(e)
  BY <1>3, OtherPhone, ResidueElsewhere DEF SameOn
<1>4. ASSUME UserStep(e) \/ ServiceStep(e) \/ RunCallback(e) \/ Crash(e)
      PROVE  \/ Residue(e)' \subseteq Residue(e)
             \/ \E r \in Request :
                   /\ SignedIn(e, r)
                   /\ Residue(e)' \subseteq Residue(e) \cup
                         {u \in {r.user} : account[u] = "verified"}
  <2>1. CASE UserStep(e)
    BY <2>1, ResidueUserStep
  <2>2. ASSUME NEW r \in Request, AuthAnswers(e, r)
        PROVE  \/ Residue(e)' \subseteq Residue(e)
               \/ /\ SignedIn(e, r)
                  /\ Residue(e)' \subseteq Residue(e) \cup
                        {u \in {r.user} : account[u] = "verified"}
    BY <2>2, ResidueAuthAnswers
  <2>3. ASSUME NEW u \in Users, ReadAnswered(e, u)
        PROVE  Residue(e)' \subseteq Residue(e)
    BY <2>3, ResidueReadAnswered
  <2>4. CASE Commit(e)
    BY <2>4, ResidueCommit
  <2>5. CASE Revoked(e)
    <3>1. \A u \in Users : ~Concerns(Credential(Nobody), u)
      BY DEF Concerns, Credential, CallbackOf, IsOf
    <3>2. UNCHANGED <<local, reads, writeQ>>
      BY <2>5 DEF Revoked
    <3> QED
      BY <2>5, <3>1, <3>2, ResiduePost, CallbackType DEF Revoked
  <2>6. CASE RunCallback(e)
    BY <2>6, ResidueRunCallback
  <2>7. CASE Crash(e)
    BY <2>7, ResidueRestarted DEF Crash
  <2> QED
    BY <1>4, <2>1, <2>2, <2>3, <2>4, <2>5, <2>6, <2>7 DEF ServiceStep
<1> QED
  BY <1>1, <1>2, <1>3, <1>4 DEF Next

-----------------------------------------------------------------------------
(* A verified account stays verified. *)
LEMMA VerifiedStays ==
    ASSUME TypeOK, [Next]_vars, NEW u \in Users, account[u] = "verified"
    PROVE  account'[u] = "verified"
<1>1. ASSUME NEW w \in Users, VerifyEmail(w) PROVE account'[u] = "verified"
  BY <1>1 DEF VerifyEmail, TypeOK
<1>2. ASSUME NEW d \in Devices, UserStep(d) PROVE account'[u] = "verified"
  <2>1. CASE Resend(d)
    BY <2>1 DEF Resend, TypeOK
  <2>2. CASE UNCHANGED account
    BY <2>2
  <2> QED
    BY <1>2, <2>1, <2>2 DEF UserStep, ProfileAppears, OpenLogin, OpenEdit, OpenFinish,
       Cancel, Back, LogOut, AskAuth, Update, Restarted
<1>3. ASSUME NEW d \in Devices, NEW r \in Request, AuthAnswers(d, r)
      PROVE  account'[u] = "verified"
  BY <1>3 DEF AuthAnswers, SignedIn, Registered, Refused, Lost, TypeOK
<1>4. ASSUME NEW d \in Devices,
             \/ \E w \in Users : ReadAnswered(d, w)
             \/ Commit(d) \/ Revoked(d) \/ RunCallback(d) \/ Crash(d)
      PROVE  UNCHANGED account
  BY <1>4 DEF ReadAnswered, Commit, Revoked, Crash, Restarted,
     RunCallback, RunCredential, RunLogin, RunGotUser, RunUpdated
<1>5. CASE UNCHANGED vars
  BY <1>5 DEF vars
<1> QED
  BY <1>1, <1>2, <1>3, <1>4, <1>5 DEF Next, ServiceStep

(* The strengthening of RecordOwnerVerified: all that is left on a phone is  *)
(* of verified users, including the callbacks that carry no record yet.      *)
VerifiedResidue ==
    \A d \in Devices : \A u \in Residue(d) : account[u] = "verified"

(* VerifiedResidue is inductive. *)
LEMMA VerifiedResidueStep ==
    TypeOK /\ VerifiedResidue /\ [Next]_vars => VerifiedResidue'
  BY ResidueStep, VerifiedStays DEF VerifiedResidue, Residue

(* So all that is left on a phone is always of verified users. *)
LEMMA AlwaysVerified == Spec => []VerifiedResidue
<1>1. Init => VerifiedResidue
  BY DEF Init, VerifiedResidue, Residue, IsOf
<1> QED
  BY <1>1, VerifiedResidueStep, TypeCorrect, PTL DEF Spec

(* Whatever record the app keeps or is about to keep is of a verified user. *)
THEOREM OnlyVerifiedRecords == Spec => []RecordOwnerVerified
<1>1. TypeOK /\ VerifiedResidue => RecordOwnerVerified
  <2> SUFFICES ASSUME TypeOK, VerifiedResidue, NEW d \in Devices
               PROVE  /\ Verified(local[d])
                      /\ \A u \in Users : reads[d][u] > 0 => account[u] = "verified"
                      /\ \A i \in DOMAIN mainQ[d] : Verified(mainQ[d][i].rec)
                      /\ \A v \in Users \cup {Nobody} : \A i \in DOMAIN writeQ[d][v] :
                            Verified(writeQ[d][v][i].rec)
    BY DEF RecordOwnerVerified
  <2>1. \A u \in Residue(d) : account[u] = "verified"
    BY DEF VerifiedResidue
  <2>2. \A rec \in Record \cup {NoRecord} : rec # NoRecord =>
           rec.owner \in Users /\ IsOf(rec, rec.owner)
    BY DEF Record, IsOf
  <2>3. Verified(local[d])
    BY <2>1, <2>2 DEF Verified, Residue, TypeOK
  <2>4. \A i \in DOMAIN mainQ[d] : mainQ[d][i].rec \in Record \cup {NoRecord}
    <3>1. mainQ[d] \in Seq(Callback)
      BY DEF TypeOK
    <3> QED
      BY <3>1 DEF Callback, Block
  <2>5. \A i \in DOMAIN mainQ[d] : Verified(mainQ[d][i].rec)
    BY <2>1, <2>2, <2>4 DEF Verified, Residue, Concerns
  <2>6. \A v \in Users \cup {Nobody} : \A i \in DOMAIN writeQ[d][v] :
           writeQ[d][v][i].rec \in Record \cup {NoRecord}
    <3> SUFFICES ASSUME NEW v \in Users \cup {Nobody}
                 PROVE  \A i \in DOMAIN writeQ[d][v] :
                           writeQ[d][v][i].rec \in Record \cup {NoRecord}
      OBVIOUS
    <3>1. writeQ[d][v] \in Seq(Mutation)
      BY DEF TypeOK
    <3> QED
      BY <3>1 DEF Mutation, Write
  <2>7. \A v \in Users \cup {Nobody} : \A i \in DOMAIN writeQ[d][v] :
           Verified(writeQ[d][v][i].rec)
    BY <2>1, <2>2, <2>6 DEF Verified, Residue
  <2> QED
    BY <2>1, <2>3, <2>5, <2>7 DEF Residue
<1> QED
  BY <1>1, AlwaysVerified, TypeCorrect, PTL

(* The strengthening of RecordIsOfSignedInUser: unless users were crossed,   *)
(* nothing on the phone is of anybody but the signed-in user.                *)
OwnResidue ==
    \A d \in Devices :
        ~crossed[d] /\ auth[d] # Nobody => Residue(d) \subseteq {auth[d]}

(* OwnResidue is inductive. *)
LEMMA OwnResidueStep ==
    TypeOK /\ OwnResidue /\ [Next]_vars => OwnResidue'
<1> SUFFICES ASSUME TypeOK, OwnResidue, [Next]_vars, NEW e \in Devices,
                    ~crossed'[e], auth'[e] # Nobody
             PROVE  Residue(e)' \subseteq {auth'[e]}
  BY DEF OwnResidue
<1>1. CASE /\ Residue(e)' \subseteq Residue(e)
           /\ auth'[e] = auth[e] /\ crossed'[e] = crossed[e]
  BY <1>1 DEF OwnResidue
<1>2. ASSUME NEW r \in Request, SignedIn(e, r) \/ Registered(e, r)
      PROVE  Residue(e) \subseteq {r.user} /\ auth'[e] = r.user
  BY <1>2 DEF SignedIn, Registered, TypeOK
<1>3. CASE /\ Residue(e)' \subseteq Residue(e)
           /\ \E r \in Request : SignedIn(e, r) \/ Registered(e, r)
  BY <1>2, <1>3
<1>4. CASE \E r \in Request :
             /\ SignedIn(e, r)
             /\ Residue(e)' \subseteq Residue(e) \cup
                   {u \in {r.user} : account[u] = "verified"}
  BY <1>2, <1>4
<1>5. \/ auth'[e] = auth[e] /\ crossed'[e] = crossed[e]
      \/ \E r \in Request : SignedIn(e, r) \/ Registered(e, r)
  <2>1. CASE UNCHANGED vars
    BY <2>1 DEF vars
  <2>2. ASSUME NEW u \in Users, VerifyEmail(u) PROVE UNCHANGED <<auth, crossed>>
    BY <2>2 DEF VerifyEmail
  <2>3. ASSUME NEW d \in Devices, d # e,
               UserStep(d) \/ ServiceStep(d) \/ RunCallback(d) \/ Crash(d)
        PROVE  auth'[e] = auth[e] /\ crossed'[e] = crossed[e]
    BY <2>3, OtherPhone DEF SameOn
  <2>4. ASSUME UserStep(e)
        PROVE  auth'[e] \in {auth[e], Nobody} /\ crossed'[e] = crossed[e]
    BY <2>4 DEF UserStep, ProfileAppears, OpenLogin, OpenEdit, OpenFinish, Cancel, Back,
       Resend, LogOut, AskAuth, Update, Restarted, TypeOK
  <2>5. ASSUME NEW r \in Request, AuthAnswers(e, r)
        PROVE  \/ auth'[e] = auth[e] /\ crossed'[e] = crossed[e]
               \/ SignedIn(e, r) \/ Registered(e, r)
    BY <2>5 DEF AuthAnswers, Refused, Lost
  <2>6. ASSUME NEW u \in Users, ReadAnswered(e, u) PROVE UNCHANGED <<auth, crossed>>
    BY <2>6 DEF ReadAnswered
  <2>7. CASE Commit(e) \/ RunCallback(e) \/ Crash(e)
    BY <2>7 DEF Commit, Crash, Restarted, RunCallback,
       RunCredential, RunLogin, RunGotUser, RunUpdated
  <2>8. CASE Revoked(e)
    BY <2>8 DEF Revoked, TypeOK
  <2> QED
    BY <2>1, <2>2, <2>3, <2>4, <2>5, <2>6, <2>7, <2>8 DEF Next, ServiceStep
<1> QED
  BY <1>1, <1>3, <1>4, <1>5, ResidueStep

(* currentUser() is the signed-in user's record unless a sign-in found       *)
(* another user's record or unanswered work on the phone.                    *)
THEOREM CurrentUserUnlessCrossed == Spec => []RecordIsOfSignedInUser
<1>1. Init => OwnResidue
  BY DEF Init, OwnResidue
<1>2. TypeOK /\ OwnResidue => RecordIsOfSignedInUser
  <2> SUFFICES ASSUME TypeOK, OwnResidue, NEW d \in Devices, ~crossed[d],
                      CurrentUser(auth[d], local[d]) # NoRecord
               PROVE  CurrentUser(auth[d], local[d]).owner = auth[d]
    BY DEF RecordIsOfSignedInUser
  <2>1. auth[d] # Nobody /\ CurrentUser(auth[d], local[d]) = local[d]
    BY DEF CurrentUser
  <2>2. local[d].owner \in Residue(d)
    BY <2>1 DEF Residue, IsOf, TypeOK, Record
  <2> QED
    BY <2>1, <2>2 DEF OwnResidue
<1> QED
  BY <1>1, <1>2, OwnResidueStep, TypeCorrect, PTL DEF Spec

-----------------------------------------------------------------------------
(* Session implements Accounts, for every phone.                            *)

(* What a step can do to the account and the record of a phone. *)
LEMMA AccountStep ==
    ASSUME TypeOK, [Next]_vars, NEW e \in Devices
    PROVE  \/ UNCHANGED <<auth[e], local[e], crossed[e]>>
           \/ \E r \in Request :
                 (SignedIn(e, r) \/ Registered(e, r)) /\ local'[e] = local[e]
           \/ /\ auth[e] # Nobody /\ auth'[e] = Nobody
              /\ UNCHANGED <<local[e], crossed[e]>>
           \/ auth'[e] = Nobody /\ local'[e] = NoRecord /\ crossed'[e] = crossed[e]
           \/ /\ local'[e] \in Record /\ UNCHANGED <<auth[e], crossed[e]>>
              /\ mainQ[e] # <<>> /\ mainQ'[e] = Tail(mainQ[e])
<1>1. CASE UNCHANGED vars
  BY <1>1 DEF vars
<1>2. ASSUME NEW u \in Users, VerifyEmail(u)
      PROVE  UNCHANGED <<auth[e], local[e], crossed[e]>>
  BY <1>2 DEF VerifyEmail
<1>3. ASSUME NEW d \in Devices, d # e,
             UserStep(d) \/ ServiceStep(d) \/ RunCallback(d) \/ Crash(d)
      PROVE  UNCHANGED <<auth[e], local[e], crossed[e]>>
  BY <1>3, OtherPhone DEF SameOn
<1>4. ASSUME UserStep(e)
      PROVE  \/ UNCHANGED <<auth[e], local[e], crossed[e]>>
             \/ auth'[e] = Nobody /\ local'[e] = NoRecord /\ crossed'[e] = crossed[e]
  <2>1. CASE LogOut(e)
    BY <2>1 DEF LogOut, TypeOK
  <2> QED
    BY <1>4, <2>1 DEF UserStep, ProfileAppears, OpenLogin, OpenEdit, OpenFinish, Cancel, Back,
       Resend, AskAuth, Update, Restarted
<1>5. ASSUME NEW r \in Request, AuthAnswers(e, r)
      PROVE  \/ UNCHANGED <<auth[e], local[e], crossed[e]>>
             \/ (SignedIn(e, r) \/ Registered(e, r)) /\ local'[e] = local[e]
  BY <1>5 DEF AuthAnswers, Refused, Lost
<1>6. ASSUME NEW u \in Users, ReadAnswered(e, u)
      PROVE  UNCHANGED <<auth[e], local[e], crossed[e]>>
  BY <1>6 DEF ReadAnswered
<1>7. CASE Commit(e) \/ Crash(e)
  BY <1>7 DEF Commit, Crash, Restarted
<1>8. CASE Revoked(e)
  BY <1>8 DEF Revoked, TypeOK
<1>9. CASE RunCallback(e)
  <2> DEFINE c == Head(mainQ[e])
  <2>0. mainQ[e] # <<>> /\ mainQ'[e] = Tail(mainQ[e])
    BY <1>9 DEF RunCallback, TypeOK
  <2>1. c \in Callback
    BY <1>9 DEF RunCallback, TypeOK
  <2> HIDE DEF c
  <2>2. CASE RunCredential(e, c) \/ RunLogin(e, c)
    BY <1>9, <2>2 DEF RunCallback, RunCredential, RunLogin
  <2>3. CASE RunGotUser(e, c)
    <3>1. c.user \in Users /\ c.rec \in Record \cup {NoRecord}
      BY <2>1, <2>3 DEF RunGotUser, Callback, Block
    <3>2. FreshUser(c.user) \in Record
      BY <3>1 DEF FreshUser, Record
    <3>3. \E l \in Record : UNCHANGED local \/ local' = [local EXCEPT ![e] = l]
      BY <2>3, <3>1, <3>2 DEF RunGotUser
    <3>4. local[e] = local'[e] \/ local'[e] \in Record
      BY <3>3 DEF TypeOK
    <3> QED
      BY <1>9, <2>3, <3>4, <2>0 DEF RunCallback, RunGotUser
  <2>4. CASE RunUpdated(e, c)
    <3>1. c.rec \in Record
      BY <2>1, <2>4 DEF RunUpdated, Callback, Block
    <3>2. UNCHANGED local \/ local'[e] \in Record
      BY <2>4, <3>1 DEF RunUpdated, TypeOK
    <3> QED
      BY <1>9, <2>4, <3>2, <2>0 DEF RunCallback, RunUpdated
  <2> QED
    BY <1>9, <2>2, <2>3, <2>4 DEF RunCallback, c
<1> QED
  BY <1>1, <1>2, <1>3, <1>4, <1>5, <1>6, <1>7, <1>8, <1>9 DEF Next, ServiceStep

(* Every step of Session is a step of Accounts on every phone, or none. *)
LEMMA AccountsStep ==
    TypeOK /\ TypeOK' /\ [Next]_vars =>
        \A e \in Devices : [Phone(e)!Next]_(Phone(e)!vars)
<1> SUFFICES ASSUME TypeOK, TypeOK', [Next]_vars, NEW e \in Devices
             PROVE  [Phone(e)!Next]_(Phone(e)!vars)
  OBVIOUS
<1> USE DEF Phone!vars, Phone!Next
<1>1. OwnerOf(local'[e]) = Nobody \/ OwnerOf(local'[e]) \in Residue(e)'
  BY DEF TypeOK, OwnerOf, Residue, IsOf, Record
<1>2. \A r \in Request : r.user \in Users
  BY DEF Request
<1>3. ASSUME NEW r \in Request, SignedIn(e, r) \/ Registered(e, r)
      PROVE  /\ auth'[e] = r.user
             /\ crossed'[e] = ~(Residue(e) \subseteq {r.user})
  BY <1>3 DEF SignedIn, Registered, TypeOK
<1>4. ASSUME NEW r \in Request, SignedIn(e, r) \/ Registered(e, r),
             local'[e] = local[e],
             Residue(e)' \subseteq Residue(e) \cup {r.user}
      PROVE  Phone(e)!SignIn(r.user)
  BY <1>1, <1>3, <1>4 DEF Phone!SignIn, Phone!Within
<1>5. CASE \E r \in Request :
             SignedIn(e, r) /\ Residue(e)' \subseteq Residue(e) \cup
                 {u \in {r.user} : account[u] = "verified"}
  <2>1. PICK r \in Request :
             SignedIn(e, r) /\ Residue(e)' \subseteq Residue(e) \cup
                 {u \in {r.user} : account[u] = "verified"}
    BY <1>5
  <2>2. local'[e] = local[e]
    <3>1. mainQ'[e] # Tail(mainQ[e]) \/ mainQ[e] = <<>>
      <4> DEFINE a == Credential(r.user)
                 b == CallbackOf("login", r.user, NoRecord, account[r.user] = "verified")
      <4>1. mainQ[e] \in Seq(Callback) /\ mainQ'[e] = mainQ[e] \o <<a, b>>
        BY <2>1 DEF SignedIn, TypeOK
      <4>2. a \in Callback /\ b \in Callback
        <5>1. (account[r.user] = "verified") \in BOOLEAN
          OBVIOUS
        <5> QED
          BY <1>2, <5>1, CallbackType DEF UpdateOp
      <4> HIDE DEF a, b
      <4>3. Len(mainQ'[e]) = Len(mainQ[e]) + 2
        <5>1. <<a, b>> \in Seq(Callback) /\ Len(<<a, b>>) = 2
          BY <4>2
        <5> QED
          BY <4>1, <5>1
      <4>4. mainQ[e] # <<>> => Len(Tail(mainQ[e])) = Len(mainQ[e]) - 1
        BY <4>1
      <4> QED
        BY <4>1, <4>3, <4>4
    <3>2. auth'[e] # Nobody
      BY <1>2, <1>3, <2>1, NobodyAssumption
    <3> QED
      BY <3>1, <3>2, AccountStep
  <2>3. Phone(e)!SignIn(r.user)
    BY <1>4, <2>1, <2>2
  <2> QED
    BY <1>2, <2>3
<1>6. CASE Residue(e)' \subseteq Residue(e)
  <2>1. CASE UNCHANGED <<auth[e], local[e], crossed[e]>>
    <3>1. Phone(e)!Settle
      BY <1>1, <1>6, <2>1 DEF Phone!Settle, Phone!Within
    <3> QED
      BY <3>1
  <2>2. ASSUME NEW r \in Request, SignedIn(e, r) \/ Registered(e, r), local'[e] = local[e]
        PROVE  Phone(e)!Next
    <3>1. Phone(e)!SignIn(r.user)
      BY <1>4, <1>6, <2>2
    <3> QED
      BY <1>2, <3>1
  <2>3. CASE /\ auth[e] # Nobody /\ auth'[e] = Nobody
             /\ UNCHANGED <<local[e], crossed[e]>>
    <3>1. Phone(e)!GiveUp
      BY <1>1, <1>6, <2>3 DEF Phone!GiveUp, Phone!Within
    <3> QED
      BY <3>1
  <2>4. CASE auth'[e] = Nobody /\ local'[e] = NoRecord /\ crossed'[e] = crossed[e]
    <3>1. Phone(e)!LogOut
      BY <1>6, <2>4 DEF Phone!LogOut, Phone!Within, OwnerOf
    <3> QED
      BY <3>1
  <2>5. CASE local'[e] \in Record /\ UNCHANGED <<auth[e], crossed[e]>>
    <3>1. OwnerOf(local'[e]) \in Users /\ OwnerOf(local'[e]) # Nobody
      BY <2>5, RecordAssumption, NobodyAssumption DEF OwnerOf, Record
    <3>2. Phone(e)!Store(OwnerOf(local'[e]))
      BY <1>1, <1>6, <2>5, <3>1 DEF Phone!Store, Phone!Within
    <3> QED
      BY <3>1, <3>2
  <2> QED
    BY <2>1, <2>2, <2>3, <2>4, <2>5, AccountStep
<1> QED
  BY <1>5, <1>6, ResidueStep

(* The record every phone keeps changes only in the ways Accounts allows:   *)
(* it only ever becomes that of a user who is still in the residue.         *)
THEOREM Implementation == Spec => ImplementsAccounts
<1>1. Init => \A d \in Devices : Phone(d)!Init
  <2> SUFFICES ASSUME Init, NEW d \in Devices PROVE Phone(d)!Init
    OBVIOUS
  <2>1. /\ auth[d] = Nobody /\ local[d] = NoRecord /\ crossed[d] = FALSE
        /\ mainQ[d] = <<>>
        /\ \A u \in Users : reads[d][u] = 0
        /\ \A v \in Users \cup {Nobody} : writeQ[d][v] = <<>>
    BY DEF Init
  <2>2. Residue(d) = {}
    <3>1. DOMAIN mainQ[d] = {} /\ \A v \in Users \cup {Nobody} : DOMAIN writeQ[d][v] = {}
      BY <2>1
    <3>2. \A u \in Users : ~IsOf(local[d], u) /\ ~(reads[d][u] > 0)
      BY <2>1 DEF IsOf
    <3> QED
      BY <3>1, <3>2 DEF Residue
  <2> QED
    BY <2>1, <2>2 DEF Phone!Init, OwnerOf
<1>2. TypeOK /\ TypeOK' /\ [Next]_vars =>
        [\A d \in Devices : [Phone(d)!Next]_(Phone(d)!vars)]_vars
  BY AccountsStep
<1> QED
  BY <1>1, <1>2, TypeCorrect, PTL DEF Spec, ImplementsAccounts

-----------------------------------------------------------------------------
(* The record of a phone and the documents on the server, when it is the only *)
(* phone.  What follows is said of the parts of one phone: the pending writes *)
(* W, the callbacks Q and the record L, and of the documents D.             *)

Queues == [Users \cup {Nobody} -> Seq(Mutation)]
Docs == [Users -> Status]

(* What a document will be once the pending creates have been answered.     *)
Creates(W, v) == \E i \in DOMAIN W[v] : W[v][i].op = "create"
Coming(W, D, v) == IF Creates(W, v) THEN "fresh" ELSE D[v]
Said(rec) == IF rec.onBoard THEN "onboarded" ELSE "fresh"

(* The callbacks that matter for the record, and those that will store one  *)
(* that an update has written.                                              *)
Stores(c) == c.kind \in UpdateOp \cup {"gotUser"}
Updates(c) == c.kind \in UpdateOp /\ c.ok
NoUpdate(W, Q) ==
    /\ \A v \in Users \cup {Nobody} : \A i \in DOMAIN W[v] : W[v][i].op \notin UpdateOp
    /\ \A k \in DOMAIN Q : Q[k].kind \notin UpdateOp

(* A write waits in the queue of the user whose document it is.             *)
OwnWrites(W) ==
    \A v \in Users \cup {Nobody} : \A i \in DOMAIN W[v] : W[v][i].doc = v

(* An update that waits is the only one and the last write of its queue; no *)
(* answer to it and no download waits on the main queue.                    *)
UpdateAlone(W, Q) ==
    \A v \in Users \cup {Nobody} : \A i \in DOMAIN W[v] : W[v][i].op \in UpdateOp =>
        /\ W[v][i].live /\ i = Len(W[v])
        /\ \A w \in Users \cup {Nobody} : \A j \in DOMAIN W[w] :
              W[w][j].op \in UpdateOp => w = v
        /\ \A k \in DOMAIN Q : ~Stores(Q[k])
AnswerAlone(Q) ==
    \A k \in DOMAIN Q : Q[k].kind \in UpdateOp =>
        \A l \in DOMAIN Q : l # k => ~Stores(Q[l])

(* An update carries the document it makes; so does the answer to it.       *)
UpdateRight(W, D) ==
    \A v \in Users \cup {Nobody} : \A i \in DOMAIN W[v] : W[v][i].op \in UpdateOp =>
        /\ W[v][i].rec.owner = v /\ Coming(W, D, v) # "none"
        /\ W[v][i].rec.onBoard =
              (W[v][i].op = "finish" \/ Coming(W, D, v) = "onboarded")
AnswerRight(Q, W, D) ==
    \A k \in DOMAIN Q : Updates(Q[k]) => Said(Q[k].rec) = Coming(W, D, Q[k].rec.owner)

(* A download carries the document; one that found none is of a user who    *)
(* has not completed the registration since.                                *)
SnapshotRight(Q, W, D) ==
    \A k \in DOMAIN Q : Q[k].kind = "gotUser" /\ Q[k].ok =>
        IF Q[k].rec = NoRecord THEN D[Q[k].user] # "onboarded"
        ELSE Q[k].rec.owner = Q[k].user /\ Said(Q[k].rec) = Coming(W, D, Q[k].user)

(* A create waits for no document that a registration has completed.        *)
CreateRight(W, D) == \A v \in Users : Creates(W, v) => D[v] # "onboarded"

(* The record is the document, or the answer to an update will make it so.  *)
LocalRight(L, Q, W, D) ==
    L # NoRecord =>
        (\E k \in DOMAIN Q : Updates(Q[k])) \/ Said(L) = Coming(W, D, L.owner)

Steady(L, Q, W, D) ==
    /\ OwnWrites(W) /\ UpdateAlone(W, Q) /\ AnswerAlone(Q) /\ UpdateRight(W, D)
    /\ AnswerRight(Q, W, D) /\ SnapshotRight(Q, W, D) /\ CreateRight(W, D)
    /\ LocalRight(L, Q, W, D)

(* Q2 holds callbacks of Q, in the same order, and others that store nothing. *)
Fewer(Q, Q2) ==
    \E s \in Nat : \A k \in DOMAIN Q2 :
        ~Stores(Q2[k]) \/ (k + s \in DOMAIN Q /\ Q2[k] = Q[k + s])

(* What is steady stays so when callbacks go away, or come that store       *)
(* nothing: with the record, as long as no answer to an update goes away.    *)
LEMMA SteadyFewer ==
    ASSUME NEW L, NEW Q \in Seq(Callback), NEW Q2 \in Seq(Callback), NEW W, NEW D,
           Steady(L, Q, W, D), Fewer(Q, Q2), NEW L2,
           \/ L2 = NoRecord
           \/ L2 = L /\ \A k \in DOMAIN Q : Updates(Q[k]) => \E l \in DOMAIN Q2 : Updates(Q2[l])
    PROVE  Steady(L2, Q2, W, D)
<1>1. PICK s \in Nat : \A k \in DOMAIN Q2 :
         ~Stores(Q2[k]) \/ (k + s \in DOMAIN Q /\ Q2[k] = Q[k + s])
  BY DEF Fewer
<1>2. \A k \in DOMAIN Q2 : ~Stores(Q2[k]) \/ \E l \in DOMAIN Q : Q2[k] = Q[l]
  BY <1>1
<1>3. \A k \in DOMAIN Q2 : Updates(Q2[k]) \/ Q2[k].kind = "gotUser" => Stores(Q2[k])
  BY DEF Updates, Stores
<1>4. OwnWrites(W) /\ UpdateRight(W, D) /\ CreateRight(W, D)
  BY DEF Steady
<1>5. UpdateAlone(W, Q2)
  BY <1>2 DEF Steady, UpdateAlone
<1>6. AnswerAlone(Q2)
  <2> SUFFICES ASSUME NEW k \in DOMAIN Q2, Q2[k].kind \in UpdateOp,
                      NEW l \in DOMAIN Q2, l # k, Stores(Q2[l])
               PROVE  FALSE
    BY DEF AnswerAlone
  <2>1. Stores(Q2[k]) /\ k \in Nat /\ l \in Nat
    BY DEF Stores
  <2>2. /\ k + s \in DOMAIN Q /\ Q2[k] = Q[k + s]
        /\ l + s \in DOMAIN Q /\ Q2[l] = Q[l + s] /\ l + s # k + s
    BY <1>1, <2>1
  <2>3. AnswerAlone(Q)
    BY DEF Steady
  <2> QED
    BY <2>2, <2>3 DEF AnswerAlone
<1>7. AnswerRight(Q2, W, D)
  <2>1. AnswerRight(Q, W, D)
    BY DEF Steady
  <2> QED
    BY <1>2, <1>3, <2>1 DEF AnswerRight
<1>8. SnapshotRight(Q2, W, D)
  <2>1. SnapshotRight(Q, W, D)
    BY DEF Steady
  <2> QED
    BY <1>2, <1>3, <2>1 DEF SnapshotRight
<1>9. LocalRight(L2, Q2, W, D)
  BY DEF Steady, LocalRight
<1> QED
  BY <1>4, <1>5, <1>6, <1>7, <1>8, <1>9 DEF Steady

(* A record that is the document may be stored. *)
LEMMA SteadyStored ==
    ASSUME NEW Q, NEW W, NEW D, Steady(NoRecord, Q, W, D),
           NEW L, Said(L) = Coming(W, D, L.owner)
    PROVE  Steady(L, Q, W, D)
  BY DEF Steady, LocalRight

(* A restart that loses no update. *)
LEMMA SteadyForgotten ==
    ASSUME NEW L \in Record \cup {NoRecord}, NEW Q \in Seq(Callback), NEW W \in Queues, NEW D,
           Steady(L, Q, W, D), NoUpdate(W, Q)
    PROVE  Steady(L, <<>>, [v \in Users \cup {Nobody} |-> Forget(W[v])], D)
<1> DEFINE W2 == [v \in Users \cup {Nobody} |-> Forget(W[v])]
<1>1. \A v \in Users \cup {Nobody} :
         /\ W2[v] = Forget(W[v]) /\ DOMAIN W2[v] = DOMAIN W[v]
         /\ \A i \in DOMAIN W[v] : W2[v][i].op = W[v][i].op /\ W2[v][i].doc = W[v][i].doc
  <2> SUFFICES ASSUME NEW v \in Users \cup {Nobody}
               PROVE  /\ DOMAIN Forget(W[v]) = DOMAIN W[v]
                      /\ \A i \in DOMAIN W[v] : /\ Forget(W[v])[i].op = W[v][i].op
                                                /\ Forget(W[v])[i].doc = W[v][i].doc
    OBVIOUS
  <2>1. \A m \in Mutation : LET n == [m EXCEPT !.live = FALSE]
                            IN  n.op = m.op /\ n.doc = m.doc
    BY DEF Mutation, Write
  <2>2. W[v] \in Seq(Mutation)
    BY DEF Queues
  <2>3. \A i \in DOMAIN W[v] : W[v][i] \in Mutation
    BY <2>2
  <2> QED
    BY <2>1, <2>3 DEF Forget
<1> HIDE DEF W2
<1>2. \A v \in Users \cup {Nobody} : Coming(W2, D, v) = Coming(W, D, v)
                                     /\ (Creates(W2, v) <=> Creates(W, v))
  BY <1>1 DEF Coming, Creates
<1>3. /\ OwnWrites(W) /\ CreateRight(W, D) /\ LocalRight(L, Q, W, D)
      /\ \A k \in DOMAIN Q : ~Updates(Q[k])
  BY DEF Steady, NoUpdate, Updates
<1>4. OwnWrites(W2)
  BY <1>1, <1>3 DEF OwnWrites
<1>5. \A v \in Users \cup {Nobody} : \A i \in DOMAIN W2[v] : W2[v][i].op \notin UpdateOp
  BY <1>1 DEF NoUpdate
<1>6. UpdateAlone(W2, <<>>) /\ UpdateRight(W2, D)
  BY <1>5 DEF UpdateAlone, UpdateRight
<1>7. AnswerAlone(<<>>) /\ AnswerRight(<<>>, W2, D) /\ SnapshotRight(<<>>, W2, D)
  BY DEF AnswerAlone, AnswerRight, SnapshotRight
<1>8. CreateRight(W2, D)
  BY <1>2, <1>3 DEF CreateRight
<1>9. L # NoRecord => Said(L) = Coming(W2, D, L.owner)
  <2>1. L # NoRecord => L.owner \in Users
    BY DEF Record
  <2> QED
    BY <1>2, <1>3, <2>1 DEF LocalRight
<1> QED
  BY <1>4, <1>6, <1>7, <1>8, <1>9 DEF Steady, LocalRight, W2

(* A write put at the end of a queue. *)
Queued(W, v, m) == [W EXCEPT ![v] = Append(W[v], m)]

(* A queue with one write more holds the old writes and that one, last. *)
LEMMA WrittenTo ==
    ASSUME NEW W \in Queues, NEW v \in Users \cup {Nobody}, NEW m \in Mutation
    PROVE  LET W2 == Queued(W, v, m)
           IN  /\ W2 \in Queues
               /\ Len(W2[v]) \in DOMAIN W2[v] /\ W2[v][Len(W2[v])] = m
               /\ \A w \in Users \cup {Nobody} :
                     /\ w # v => W2[w] = W[w]
                     /\ DOMAIN W[w] \subseteq DOMAIN W2[w]
                     /\ \A i \in DOMAIN W[w] : W2[w][i] = W[w][i]
                     /\ \A i \in DOMAIN W2[w] :
                           \/ i \in DOMAIN W[w] /\ W2[w][i] = W[w][i]
                           \/ w = v /\ i = Len(W2[v]) /\ W2[w][i] = m
<1> DEFINE q == Append(W[v], m)
           W2 == [W EXCEPT ![v] = q]
<1>1. W[v] \in Seq(Mutation)
  BY DEF Queues
<1>2. /\ q \in Seq(Mutation) /\ Len(q) = Len(W[v]) + 1
      /\ \A i \in DOMAIN q : \/ i \in DOMAIN W[v] /\ q[i] = W[v][i]
                             \/ i = Len(q) /\ q[i] = m
  BY <1>1, AppendEntries
<1>3. /\ Len(q) \in DOMAIN q /\ q[Len(q)] = m /\ DOMAIN W[v] \subseteq DOMAIN q
      /\ \A i \in DOMAIN W[v] : q[i] = W[v][i]
  BY <1>1
<1> HIDE DEF q
<1>4. W2 \in Queues
  BY <1>2 DEF Queues
<1>5. W2[v] = q /\ \A w \in Users \cup {Nobody} : w # v => W2[w] = W[w]
  BY DEF Queues
<1>6. W2 = Queued(W, v, m)
  BY DEF Queued, q
<1> HIDE DEF W2
<1> QED
  BY <1>2, <1>3, <1>4, <1>5, <1>6

(* An update is sent while no other work on the record is under way. *)
LEMMA SteadySent ==
    ASSUME NEW L \in Record, NEW Q \in Seq(Callback), NEW W \in Queues, NEW D \in Docs,
           Steady(L, Q, W, D), NoUpdate(W, Q), \A k \in DOMAIN Q : Q[k].kind # "gotUser",
           NEW m \in Mutation, m.op \in UpdateOp, m.live, m.doc = L.owner,
           m.rec = Userobject(L, m.op)
    PROVE  Steady(L, Q, Queued(W, L.owner, m), D)
<1> DEFINE v == L.owner
           W2 == Queued(W, v, m)
<1>1. v \in Users
  BY DEF Record
<1>2. /\ Len(W2[v]) \in DOMAIN W2[v] /\ W2[v][Len(W2[v])] = m
      /\ \A w \in Users \cup {Nobody} :
            /\ w # v => W2[w] = W[w]
            /\ DOMAIN W[w] \subseteq DOMAIN W2[w]
            /\ \A i \in DOMAIN W[w] : W2[w][i] = W[w][i]
            /\ \A i \in DOMAIN W2[w] :
                  \/ i \in DOMAIN W[w] /\ W2[w][i] = W[w][i]
                  \/ w = v /\ i = Len(W2[v]) /\ W2[w][i] = m
  BY <1>1, WrittenTo
<1> HIDE DEF W2
<1>3. m.op # "create"
  BY DEF UpdateOp
<1>4. \A w \in Users \cup {Nobody} : /\ Creates(W2, w) <=> Creates(W, w)
                                     /\ Coming(W2, D, w) = Coming(W, D, w)
  BY <1>2, <1>3 DEF Creates, Coming
<1>5. /\ OwnWrites(W) /\ AnswerAlone(Q) /\ CreateRight(W, D)
      /\ \A k \in DOMAIN Q : ~Stores(Q[k]) /\ ~Updates(Q[k])
  BY DEF Steady, NoUpdate, Stores, Updates
<1>6. Said(L) = Coming(W, D, v)
  BY <1>5, RecordAssumption DEF Steady, LocalRight, Record
<1>7. OwnWrites(W2)
  BY <1>2, <1>5 DEF OwnWrites
<1>8. \A w \in Users \cup {Nobody} : \A i \in DOMAIN W2[w] : W2[w][i].op \in UpdateOp =>
         w = v /\ i = Len(W2[v]) /\ W2[w][i] = m
  BY <1>2 DEF NoUpdate
<1>9. UpdateAlone(W2, Q)
  BY <1>5, <1>8 DEF UpdateAlone
<1>10. UpdateRight(W2, D)
  <2>1. m.rec.owner = v /\ m.rec.onBoard = (m.op = "finish" \/ L.onBoard)
    BY DEF Userobject, Record
  <2>2. Coming(W, D, v) # "none" /\ L.onBoard = (Coming(W, D, v) = "onboarded")
    BY <1>6 DEF Said, Record
  <2>3. Coming(W2, D, v) # "none"
        /\ m.rec.onBoard = (m.op = "finish" \/ Coming(W2, D, v) = "onboarded")
    BY <1>1, <1>4, <2>1, <2>2
  <2> QED
    BY <1>8, <2>1, <2>3 DEF UpdateRight
<1>11. AnswerRight(Q, W2, D) /\ SnapshotRight(Q, W2, D)
  BY <1>5 DEF AnswerRight, SnapshotRight
<1>12. CreateRight(W2, D)
  BY <1>4, <1>5 DEF CreateRight
<1>13. LocalRight(L, Q, W2, D)
  BY <1>1, <1>4, <1>6 DEF LocalRight
<1> QED
  BY <1>5, <1>7, <1>9, <1>10, <1>11, <1>12, <1>13 DEF Steady, W2

(* What a download finds, through the pending writes of one account, is the *)
(* document as the pending creates will leave it.                           *)
LEMMA OverlaySays ==
    ASSUME NEW W \in Queues, NEW D \in Docs, OwnWrites(W), CreateRight(W, D),
           \A v \in Users \cup {Nobody} : \A i \in DOMAIN W[v] : W[v][i].op \notin UpdateOp,
           NEW f \in Users \cup {Nobody}, NEW u \in Users, NEW base \in {"none", D[u]}
    PROVE  LET s == Overlay(base, W[f], u)
           IN  IF s = "none" THEN base = "none" ELSE s = Coming(W, D, u)
<1>1. ~FinishedLast(W[f], u)
  BY DEF FinishedLast, UpdateOp
<1>2. Created(W[f], u) <=> f = u /\ Creates(W, u)
  BY DEF Created, Creates, OwnWrites
<1>3. D[u] \in Status
  BY DEF Docs
<1>4. Creates(W, u) => D[u] # "onboarded"
  BY DEF CreateRight
<1> QED
  BY <1>1, <1>2, <1>3, <1>4 DEF Overlay, Coming, Status

(* A download is answered while no update is under way. *)
LEMMA SteadyRead ==
    ASSUME NEW L, NEW Q \in Seq(Callback), NEW W \in Queues, NEW D \in Docs,
           Steady(L, Q, W, D), NoUpdate(W, Q), NEW c \in Callback, c.kind = "gotUser",
           c.ok => IF c.rec = NoRecord THEN D[c.user] # "onboarded"
                   ELSE c.rec.owner = c.user /\ Said(c.rec) = Coming(W, D, c.user)
    PROVE  Steady(L, Append(Q, c), W, D)
<1> DEFINE Q2 == Append(Q, c)
<1>1. /\ DOMAIN Q \subseteq DOMAIN Q2 /\ \A k \in DOMAIN Q : Q2[k] = Q[k]
      /\ \A k \in DOMAIN Q2 : \/ k \in DOMAIN Q /\ Q2[k] = Q[k]
                              \/ Q2[k] = c
  BY AppendEntries
<1> HIDE DEF Q2
<1>2. \A k \in DOMAIN Q2 : Q2[k].kind \notin UpdateOp
  BY <1>1 DEF NoUpdate, UpdateOp
<1>3. UpdateAlone(W, Q2) /\ AnswerAlone(Q2) /\ AnswerRight(Q2, W, D)
  BY <1>2 DEF UpdateAlone, NoUpdate, AnswerAlone, AnswerRight, Updates
<1>4. SnapshotRight(Q2, W, D)
  BY <1>1 DEF Steady, SnapshotRight
<1>5. LocalRight(L, Q2, W, D)
  BY <1>1 DEF Steady, LocalRight
<1> QED
  BY <1>3, <1>4, <1>5 DEF Steady, Q2

(* A new user is written for a document that was not found. *)
LEMMA SteadyCreated ==
    ASSUME NEW Q \in Seq(Callback), NEW W \in Queues, NEW D \in Docs,
           Steady(NoRecord, Q, W, D), NoUpdate(W, Q), NEW u \in Users, D[u] # "onboarded",
           NEW m \in Mutation, m.op = "create", m.doc = u
    PROVE  Steady(FreshUser(u), Q, Queued(W, u, m), D)
<1> DEFINE W2 == Queued(W, u, m)
<1>1. /\ Len(W2[u]) \in DOMAIN W2[u] /\ W2[u][Len(W2[u])] = m
      /\ \A w \in Users \cup {Nobody} :
            /\ w # u => W2[w] = W[w]
            /\ DOMAIN W[w] \subseteq DOMAIN W2[w]
            /\ \A i \in DOMAIN W[w] : W2[w][i] = W[w][i]
            /\ \A i \in DOMAIN W2[w] :
                  \/ i \in DOMAIN W[w] /\ W2[w][i] = W[w][i]
                  \/ w = u /\ i = Len(W2[u]) /\ W2[w][i] = m
  BY WrittenTo
<1> HIDE DEF W2
<1>2. Creates(W2, u) /\ Coming(W2, D, u) = "fresh"
  BY <1>1 DEF Creates, Coming
<1>3. \A w \in Users : w # u => /\ Creates(W2, w) <=> Creates(W, w)
                                /\ Coming(W2, D, w) = Coming(W, D, w)
  BY <1>1 DEF Creates, Coming
<1>4. \A w \in Users \cup {Nobody} : \A i \in DOMAIN W2[w] : W2[w][i].op \notin UpdateOp
  BY <1>1 DEF NoUpdate, UpdateOp
<1>5. OwnWrites(W2)
  BY <1>1 DEF Steady, OwnWrites
<1>6. UpdateAlone(W2, Q) /\ UpdateRight(W2, D)
  BY <1>4 DEF UpdateAlone, UpdateRight
<1>7. AnswerAlone(Q) /\ AnswerRight(Q, W2, D)
  BY DEF Steady, NoUpdate, AnswerAlone, AnswerRight, Updates
<1>8. SnapshotRight(Q, W2, D)
  <2> SUFFICES ASSUME NEW k \in DOMAIN Q, Q[k].kind = "gotUser", Q[k].ok, Q[k].rec # NoRecord
               PROVE  /\ Q[k].rec.owner = Q[k].user
                      /\ Said(Q[k].rec) = Coming(W2, D, Q[k].user)
    BY DEF Steady, SnapshotRight
  <2>1. /\ Q[k].rec.owner = Q[k].user
        /\ Said(Q[k].rec) = Coming(W, D, Q[k].user)
    BY DEF Steady, SnapshotRight
  <2>2. Q[k].user \in Users
    <3>1. Q[k] \in Callback
      OBVIOUS
    <3> QED
      BY <3>1 DEF Callback
  <2>3. Said(Q[k].rec) \in {"fresh", "onboarded"}
    BY DEF Said
  <2>4. Coming(W, D, u) # "onboarded"
    BY DEF Coming
  <2> QED
    BY <1>2, <1>3, <2>1, <2>2, <2>3, <2>4
<1>9. CreateRight(W2, D)
  BY <1>3 DEF Steady, CreateRight
<1>10. LocalRight(FreshUser(u), Q, W2, D)
  BY <1>2 DEF LocalRight, FreshUser, Said
<1> QED
  BY <1>5, <1>6, <1>7, <1>8, <1>9, <1>10 DEF Steady, W2

(* A queue without its first write. *)
Unqueued(W, v) == [W EXCEPT ![v] = Tail(W[v])]

(* A queue without its first write holds the other writes, each moved up.   *)
LEMMA TakenFrom ==
    ASSUME NEW W \in Queues, NEW v \in Users \cup {Nobody}, W[v] # <<>>
    PROVE  LET W2 == Unqueued(W, v)
           IN  /\ 1 \in DOMAIN W[v] /\ Head(W[v]) = W[v][1] /\ Head(W[v]) \in Mutation
               /\ Len(W2[v]) = Len(W[v]) - 1
               /\ \A w \in Users \cup {Nobody} : w # v => W2[w] = W[w]
               /\ \A i \in DOMAIN W2[v] : i + 1 \in DOMAIN W[v] /\ W2[v][i] = W[v][i + 1]
               /\ \A i \in DOMAIN W[v] : i # 1 => i - 1 \in DOMAIN W2[v]
                                               /\ W2[v][i - 1] = W[v][i]
<1> DEFINE t == Tail(W[v])
           W2 == Unqueued(W, v)
<1>1. W[v] \in Seq(Mutation)
  BY DEF Queues
<1>2. /\ 1 \in DOMAIN W[v] /\ Head(W[v]) = W[v][1] /\ Head(W[v]) \in Mutation
      /\ Len(t) = Len(W[v]) - 1 /\ t \in Seq(Mutation)
      /\ \A i \in DOMAIN t : i + 1 \in DOMAIN W[v] /\ t[i] = W[v][i + 1]
  BY <1>1, TailEntries
<1>3. \A i \in DOMAIN W[v] : i # 1 => i - 1 \in DOMAIN t
  BY <1>1, <1>2
<1>4. \A i \in DOMAIN W[v] : i # 1 => t[i - 1] = W[v][i]
  BY <1>1, <1>2, <1>3
<1>5. W2[v] = t /\ \A w \in Users \cup {Nobody} : w # v => W2[w] = W[w]
  BY DEF Queues, Unqueued
<1> HIDE DEF t, W2
<1> QED
  BY <1>2, <1>3, <1>4, <1>5 DEF W2

(* A create is answered: the document is what it was going to be. *)
LEMMA SteadyCreate ==
    ASSUME NEW L \in Record \cup {NoRecord}, NEW Q \in Seq(Callback),
           NEW W \in Queues, NEW D \in Docs, Steady(L, Q, W, D),
           NEW v \in Users \cup {Nobody}, W[v] # <<>>, Head(W[v]).op = "create"
    PROVE  Steady(L, Q, Unqueued(W, v), [D EXCEPT ![Head(W[v]).doc] = "fresh"])
<1> DEFINE W2 == Unqueued(W, v)
           m == Head(W[v])
           D2 == [D EXCEPT ![m.doc] = "fresh"]
<1>1. /\ 1 \in DOMAIN W[v] /\ m = W[v][1] /\ m \in Mutation
      /\ \A w \in Users \cup {Nobody} : w # v => W2[w] = W[w]
      /\ \A i \in DOMAIN W2[v] : i + 1 \in DOMAIN W[v] /\ W2[v][i] = W[v][i + 1]
      /\ Len(W2[v]) = Len(W[v]) - 1
  BY TakenFrom
<1>2. m.doc = v /\ v \in Users
  BY <1>1 DEF Steady, OwnWrites, Mutation, Write
<1>3. D2[v] = "fresh" /\ \A w \in Users : w # v => D2[w] = D[w]
  BY <1>2 DEF Docs
<1> HIDE DEF W2, m, D2
<1>4. \A w \in Users \cup {Nobody} : \A i \in DOMAIN W2[w] :
         \/ i \in DOMAIN W[w] /\ W2[w] = W[w] /\ w # v
         \/ w = v /\ i + 1 \in DOMAIN W[v] /\ W2[v][i] = W[v][i + 1]
  BY <1>1
<1>5. \A w \in Users : Coming(W2, D2, w) = Coming(W, D, w)
  <2>1. Coming(W, D, v) = "fresh" /\ Coming(W2, D2, v) = "fresh"
    <3>1. Creates(W, v)
      BY <1>1 DEF Creates, m
    <3> QED
      BY <1>3, <3>1 DEF Coming
  <2>2. \A w \in Users : w # v => Coming(W2, D2, w) = Coming(W, D, w)
    BY <1>1, <1>3 DEF Coming, Creates
  <2> QED
    BY <2>1, <2>2
<1>6. OwnWrites(W2)
  BY <1>4 DEF Steady, OwnWrites
<1>7. \A w \in Users \cup {Nobody} : \A i \in DOMAIN W2[w] :
         \E j \in DOMAIN W[w] : /\ W2[w][i] = W[w][j]
                                /\ j = Len(W[w]) => i = Len(W2[w])
  <2>1. Len(W[v]) \in Nat /\ DOMAIN W2[v] \subseteq Int
    <3>1. W[v] \in Seq(Mutation) /\ W2 \in Queues
      BY <1>1 DEF Queues, W2, Unqueued
    <3>2. W2[v] \in Seq(Mutation)
      BY <3>1 DEF Queues
    <3> QED
      BY <3>1, <3>2
  <2> QED
    BY <1>1, <1>4, <2>1
<1>8. UpdateAlone(W2, Q)
  <2> SUFFICES ASSUME NEW w \in Users \cup {Nobody}, NEW i \in DOMAIN W2[w],
                      W2[w][i].op \in UpdateOp
               PROVE  /\ W2[w][i].live /\ i = Len(W2[w])
                      /\ \A x \in Users \cup {Nobody} : \A j \in DOMAIN W2[x] :
                            W2[x][j].op \in UpdateOp => x = w
                      /\ \A k \in DOMAIN Q : ~Stores(Q[k])
    BY DEF UpdateAlone
  <2>1. PICK j \in DOMAIN W[w] : W2[w][i] = W[w][j] /\ (j = Len(W[w]) => i = Len(W2[w]))
    BY <1>7
  <2>2. /\ W[w][j].live /\ j = Len(W[w])
        /\ \A x \in Users \cup {Nobody} : \A y \in DOMAIN W[x] :
              W[x][y].op \in UpdateOp => x = w
        /\ \A k \in DOMAIN Q : ~Stores(Q[k])
    BY <2>1 DEF Steady, UpdateAlone
  <2> QED
    BY <1>7, <2>1, <2>2
<1>9. UpdateRight(W2, D2)
  <2> SUFFICES ASSUME NEW w \in Users \cup {Nobody}, NEW i \in DOMAIN W2[w],
                      W2[w][i].op \in UpdateOp
               PROVE  /\ W2[w][i].rec.owner = w /\ Coming(W2, D2, w) # "none"
                      /\ W2[w][i].rec.onBoard =
                            (W2[w][i].op = "finish" \/ Coming(W2, D2, w) = "onboarded")
    BY DEF UpdateRight
  <2>1. PICK j \in DOMAIN W[w] : W2[w][i] = W[w][j]
    BY <1>7
  <2>2. /\ W[w][j].rec.owner = w /\ Coming(W, D, w) # "none" /\ W[w][j].doc = w
        /\ W[w][j].rec.onBoard = (W[w][j].op = "finish" \/ Coming(W, D, w) = "onboarded")
    BY <2>1 DEF Steady, UpdateRight, OwnWrites
  <2>3. w \in Users
    <3>1. W[w] \in Seq(Mutation)
      BY DEF Queues
    <3>2. W[w][j] \in Mutation
      BY <3>1
    <3> QED
      BY <2>2, <3>2 DEF Mutation, Write
  <2> QED
    BY <1>5, <2>1, <2>2, <2>3
<1>10. \A k \in DOMAIN Q : /\ Q[k] \in Callback
                           /\ Updates(Q[k]) => Q[k].rec.owner \in Users
                           /\ Q[k].kind = "gotUser" => Q[k].user \in Users
  <2>1. \A c \in Callback : /\ Updates(c) => c.rec.owner \in Users
                            /\ c.kind = "gotUser" => c.user \in Users
    BY DEF Callback, Block, Updates, Record
  <2> QED
    BY <2>1
<1>11. AnswerRight(Q, W2, D2)
  BY <1>5, <1>10 DEF Steady, AnswerRight
<1>12. SnapshotRight(Q, W2, D2)
  <2>1. \A u \in Users : D[u] # "onboarded" => D2[u] # "onboarded"
    BY <1>3
  <2> QED
    BY <1>5, <1>10, <2>1 DEF Steady, SnapshotRight
<1>13. CreateRight(W2, D2)
  <2>1. \A w \in Users : w # v => (Creates(W2, w) <=> Creates(W, w))
    BY <1>1 DEF Creates
  <2> QED
    BY <1>3, <2>1 DEF Steady, CreateRight
<1>14. LocalRight(L, Q, W2, D2)
  BY <1>5 DEF Steady, LocalRight, Record
<1> QED
  BY <1>6, <1>8, <1>9, <1>11, <1>12, <1>13, <1>14 DEF Steady, AnswerAlone, W2, D2, m

(* An update is answered: the record is stored when the document is made,   *)
(* and neither when it is not.                                              *)
LEMMA SteadyUpdate ==
    ASSUME NEW L \in Record \cup {NoRecord}, NEW Q \in Seq(Callback),
           NEW W \in Queues, NEW D \in Docs, Steady(L, Q, W, D),
           NEW v \in Users \cup {Nobody}, W[v] # <<>>, Head(W[v]).op \in UpdateOp,
           NEW ok \in BOOLEAN,
           NEW D2, D2 = IF ok THEN [D EXCEPT ![Head(W[v]).doc] = Applied(Head(W[v]), @)] ELSE D
    PROVE  /\ Head(W[v]).live
           /\ Steady(L, Append(Q, Answered(Head(W[v]), ok)), Unqueued(W, v), D2)
<1> DEFINE W2 == Unqueued(W, v)
           m == Head(W[v])
           c == Answered(m, ok)
           Q2 == Append(Q, c)
<1>1. /\ 1 \in DOMAIN W[v] /\ m = W[v][1] /\ m \in Mutation
      /\ \A w \in Users \cup {Nobody} : w # v => W2[w] = W[w]
      /\ \A i \in DOMAIN W2[v] : i + 1 \in DOMAIN W[v]
      /\ Len(W2[v]) = Len(W[v]) - 1
  BY TakenFrom
<1>2. /\ m.live /\ Len(W[v]) = 1 /\ m.doc = v /\ v \in Users
      /\ \A w \in Users \cup {Nobody} : \A j \in DOMAIN W[w] :
            W[w][j].op \in UpdateOp => w = v
      /\ \A k \in DOMAIN Q : ~Stores(Q[k])
  <2>1. W[v][1].op \in UpdateOp
    BY <1>1
  <2>2. /\ W[v][1].live /\ 1 = Len(W[v])
        /\ \A w \in Users \cup {Nobody} : \A j \in DOMAIN W[w] :
              W[w][j].op \in UpdateOp => w = v
        /\ \A k \in DOMAIN Q : ~Stores(Q[k])
    BY <1>1, <2>1 DEF Steady, UpdateAlone
  <2>3. m.doc = v
    BY <1>1 DEF Steady, OwnWrites
  <2>4. m.doc \in Users
    BY <1>1 DEF Mutation, Write
  <2> QED
    BY <1>1, <2>2, <2>3, <2>4
<1>3. /\ m.rec.owner = v /\ Coming(W, D, v) # "none"
      /\ m.rec.onBoard = (m.op = "finish" \/ Coming(W, D, v) = "onboarded")
  BY <1>1 DEF Steady, UpdateRight
<1>4. /\ c \in Callback /\ c.kind \in UpdateOp /\ c.rec = m.rec /\ c.ok = ok
  <2>1. m.rec \in Record /\ m.op \in UpdateOp
    BY <1>1 DEF Mutation, Write
  <2> QED
    BY <2>1, RecordAssumption DEF Answered, CallbackOf, Callback, Block, UpdateOp, Record
<1>5. DOMAIN W2[v] = {} /\ ~Creates(W, v)
  <2>1. DOMAIN W[v] = {1}
    <3>1. W[v] \in Seq(Mutation)
      BY DEF Queues
    <3> QED
      BY <1>2, <3>1
  <2>2. \A i \in DOMAIN W2[v] : FALSE
    <3>1. W2 \in Queues
      BY TailEntries DEF Queues, Unqueued
    <3>2. W2[v] \in Seq(Mutation)
      BY <3>1 DEF Queues
    <3> QED
      BY <1>1, <2>1, <3>2
  <2> QED
    BY <1>1, <2>1, <2>2 DEF Creates, m, UpdateOp
<1>6. /\ D2[v] = IF ok THEN Applied(m, D[v]) ELSE D[v]
      /\ \A w \in Users : w # v => D2[w] = D[w]
  BY <1>2 DEF Docs
<1> HIDE DEF W2, m, c
<1>7. /\ \A k \in DOMAIN Q2 : Stores(Q2[k]) => Q2[k] = c /\ k = Len(Q) + 1
      /\ Len(Q) + 1 \in DOMAIN Q2 /\ Q2[Len(Q) + 1] = c /\ Len(Q2) = Len(Q) + 1
  BY <1>2, <1>4, AppendEntries
<1> HIDE DEF Q2
<1>8. Stores(c) /\ (Updates(c) <=> ok) /\ c.kind # "gotUser"
  BY <1>4 DEF Stores, Updates, UpdateOp
<1>9. \A k \in DOMAIN Q2 : Updates(Q2[k]) \/ Q2[k].kind \in UpdateOp \cup {"gotUser"} => Stores(Q2[k])
  BY DEF Updates, Stores
<1>10. OwnWrites(W2)
  BY <1>1, <1>5 DEF Steady, OwnWrites
<1>11. UpdateAlone(W2, Q2) /\ UpdateRight(W2, D2)
  BY <1>1, <1>2, <1>5 DEF UpdateAlone, UpdateRight
<1>12. AnswerAlone(Q2)
  BY <1>7, <1>9 DEF AnswerAlone
<1>13. Coming(W2, D2, v) = D2[v] /\ Coming(W, D, v) = D[v]
  BY <1>5 DEF Coming, Creates
<1>14. AnswerRight(Q2, W2, D2)
  <2> SUFFICES ASSUME ok PROVE Said(m.rec) = D2[v]
    BY <1>3, <1>4, <1>7, <1>8, <1>9, <1>13 DEF AnswerRight
  <2>1. m.op \in UpdateOp /\ D[v] \in Status
    BY <1>2 DEF m, Docs
  <2>2. D2[v] = IF m.op = "finish" THEN "onboarded" ELSE D[v]
    BY <1>6, <2>1 DEF Applied, UpdateOp
  <2> QED
    BY <1>3, <1>13, <2>1, <2>2 DEF Said, Status
<1>15. SnapshotRight(Q2, W2, D2)
  BY <1>7, <1>8, <1>9 DEF SnapshotRight
<1>16. CreateRight(W2, D2)
  BY <1>1, <1>5, <1>6 DEF Steady, CreateRight, Creates
<1>17. LocalRight(L, Q2, W2, D2)
  <2>1. CASE ok
    BY <1>7, <1>8, <2>1 DEF LocalRight
  <2>2. CASE ~ok
    <3>1. \A w \in Users : Coming(W2, D2, w) = Coming(W, D, w)
      BY <1>1, <1>6, <1>13, <2>2 DEF Coming, Creates
    <3>2. \A k \in DOMAIN Q : ~Updates(Q[k])
      BY <1>2 DEF Updates, Stores
    <3> QED
      BY <3>1, <3>2 DEF Steady, LocalRight, Record
  <2> QED
    BY <2>1, <2>2
<1> QED
  BY <1>2, <1>10, <1>11, <1>12, <1>14, <1>15, <1>16, <1>17 DEF Steady, W2, m, c, Q2

(* Firestore works for the signed-in user, or the notification that tells   *)
(* it so waits on the main queue Q: the last one of them, with the          *)
(* completion of the sign-in behind it unless the user has nothing in R.    *)
Follows(Q, f, a, R) ==
    \/ f = a /\ \A i \in DOMAIN Q : Q[i].kind # "credential"
    \/ \E i \in DOMAIN Q :
          /\ Q[i].kind = "credential" /\ Q[i].user = a
          /\ \A j \in DOMAIN Q : j > i => Q[j].kind # "credential"
          /\ \/ a = Nobody \/ a \notin R
             \/ i + 1 \in DOMAIN Q /\ Q[i + 1].kind = "login"
FirestoreFollows(d) == Follows(mainQ[d], fsUser[d], auth[d], Residue(d))

(* Less work on the phone changes nothing of that. *)
LEMMA FollowsLess ==
    ASSUME NEW Q, NEW f, NEW a, NEW R, NEW R2, R2 \subseteq R, Follows(Q, f, a, R)
    PROVE  Follows(Q, f, a, R2)
  BY DEF Follows

(* Nor does a callback that is no notification, behind the others. *)
LEMMA FollowsMore ==
    ASSUME NEW Q \in Seq(Callback), NEW f, NEW a, NEW R, Follows(Q, f, a, R),
           NEW c \in Callback, c.kind # "credential"
    PROVE  Follows(Append(Q, c), f, a, R)
<1> DEFINE Q2 == Append(Q, c)
<1>1. /\ DOMAIN Q \subseteq DOMAIN Q2 /\ \A k \in DOMAIN Q : Q2[k] = Q[k]
      /\ \A k \in DOMAIN Q2 : k \in DOMAIN Q \/ Q2[k] = c
  BY AppendEntries
<1> HIDE DEF Q2
<1>2. CASE f = a /\ \A i \in DOMAIN Q : Q[i].kind # "credential"
  BY <1>1, <1>2 DEF Follows, Q2
<1>3. CASE ~ (f = a /\ \A i \in DOMAIN Q : Q[i].kind # "credential")
  <2>1. PICK i \in DOMAIN Q :
          /\ Q[i].kind = "credential" /\ Q[i].user = a
          /\ \A j \in DOMAIN Q : j > i => Q[j].kind # "credential"
          /\ \/ a = Nobody \/ a \notin R
             \/ i + 1 \in DOMAIN Q /\ Q[i + 1].kind = "login"
    BY <1>3 DEF Follows
  <2>2. /\ i \in DOMAIN Q2 /\ Q2[i].kind = "credential" /\ Q2[i].user = a
        /\ \A j \in DOMAIN Q2 : j > i => Q2[j].kind # "credential"
        /\ \/ a = Nobody \/ a \notin R
           \/ i + 1 \in DOMAIN Q2 /\ Q2[i + 1].kind = "login"
    BY <1>1, <2>1
  <2> QED
    BY <2>2 DEF Follows, Q2
<1> QED
  BY <1>2, <1>3

(* A notification that is posted is the last one. *)
LEMMA FollowsLast ==
    ASSUME NEW Q \in Seq(Callback), NEW f, NEW a, NEW R, a = Nobody \/ a \notin R,
           NEW c \in Callback, c.kind = "credential", c.user = a
    PROVE  Follows(Append(Q, c), f, a, R)
<1> DEFINE Q2 == Append(Q, c)
<1>1. /\ Len(Q) + 1 \in DOMAIN Q2 /\ Q2[Len(Q) + 1] = c
      /\ \A k \in DOMAIN Q2 : ~ (k > Len(Q) + 1)
  OBVIOUS
<1> HIDE DEF Q2
<1> QED
  BY <1>1 DEF Follows, Q2

(* So is the one of a sign-in, with the completion behind it. *)
LEMMA FollowsSignIn ==
    ASSUME NEW Q \in Seq(Callback), NEW f, NEW a, NEW R,
           NEW c \in Callback, c.kind = "credential", c.user = a,
           NEW l \in Callback, l.kind = "login"
    PROVE  Follows(Q \o <<c, l>>, f, a, R)
<1> DEFINE Q2 == Q \o <<c, l>>
           n == Len(Q) + 1
<1>1. /\ n \in DOMAIN Q2 /\ Q2[n] = c /\ n + 1 \in DOMAIN Q2 /\ Q2[n + 1] = l
      /\ \A k \in DOMAIN Q2 : k > n => k = n + 1
  <2>1. <<c, l>> \in Seq(Callback) /\ Len(<<c, l>>) = 2 /\ Len(Q) \in Nat
    OBVIOUS
  <2>2. Q2 \in Seq(Callback) /\ Len(Q2) = Len(Q) + 2
    BY <2>1
  <2>3. DOMAIN Q2 = 1..(Len(Q) + 2)
    BY <2>2
  <2>4. Q2[n] = c /\ Q2[n + 1] = l
    BY <2>1
  <2> HIDE DEF Q2
  <2> QED
    BY <2>1, <2>3, <2>4
<1> HIDE DEF Q2, n
<1>2. \A k \in DOMAIN Q2 : k > n => Q2[k].kind # "credential"
  BY <1>1
<1> QED
  BY <1>1, <1>2 DEF Follows, Q2

(* When the first callback has run, Firestore has caught up or still will. *)
LEMMA FollowsRun ==
    ASSUME NEW Q \in Seq(Callback), Q # <<>>, NEW f, NEW a, NEW R, Follows(Q, f, a, R),
           NEW f2, f2 = IF Head(Q).kind = "credential" THEN Head(Q).user ELSE f
    PROVE  Follows(Tail(Q), f2, a, R)
<1> DEFINE t == Tail(Q)
<1>1. /\ 1 \in DOMAIN Q /\ Head(Q) = Q[1] /\ DOMAIN t \subseteq Nat \ {0}
      /\ \A i \in DOMAIN t : i + 1 \in DOMAIN Q /\ t[i] = Q[i + 1]
      /\ \A i \in DOMAIN Q : i \in Nat /\ (i # 1 => i - 1 \in DOMAIN t /\ t[i - 1] = Q[i])
  <2>1. /\ t \in Seq(Callback) /\ Len(t) = Len(Q) - 1 /\ Len(Q) \in Nat
        /\ DOMAIN t = 1..Len(t) /\ DOMAIN Q = 1..Len(Q)
        /\ 1 \in DOMAIN Q /\ Head(Q) = Q[1]
        /\ \A i \in DOMAIN t : i + 1 \in DOMAIN Q /\ t[i] = Q[i + 1]
    BY TailEntries
  <2> HIDE DEF t
  <2>2. \A i \in DOMAIN Q : i \in Nat /\ (i # 1 => i - 1 \in DOMAIN t /\ (i - 1) + 1 = i)
    BY <2>1
  <2>3. \A i \in DOMAIN Q : i # 1 => t[i - 1] = Q[i]
    BY <2>1, <2>2
  <2> QED
    BY <2>1, <2>2, <2>3
<1> HIDE DEF t
<1>2. CASE f = a /\ \A i \in DOMAIN Q : Q[i].kind # "credential"
  <2>1. f2 = a /\ \A i \in DOMAIN t : t[i].kind # "credential"
    BY <1>1, <1>2
  <2> QED
    BY <2>1 DEF Follows, t
<1>3. CASE ~ (f = a /\ \A i \in DOMAIN Q : Q[i].kind # "credential")
  <2>1. PICK i \in DOMAIN Q :
          /\ Q[i].kind = "credential" /\ Q[i].user = a
          /\ \A j \in DOMAIN Q : j > i => Q[j].kind # "credential"
          /\ \/ a = Nobody \/ a \notin R
             \/ i + 1 \in DOMAIN Q /\ Q[i + 1].kind = "login"
    BY <1>3 DEF Follows
  <2>2. CASE i = 1
    <3>1. f2 = a
      BY <1>1, <2>1, <2>2
    <3>2. \A j \in DOMAIN t : t[j].kind # "credential"
      <4> SUFFICES ASSUME NEW j \in DOMAIN t PROVE t[j].kind # "credential"
        OBVIOUS
      <4>1. j + 1 \in DOMAIN Q /\ t[j] = Q[j + 1] /\ j + 1 > 1
        BY <1>1
      <4> QED
        BY <2>1, <2>2, <4>1
    <3> QED
      BY <3>1, <3>2 DEF Follows, t
  <2>3. CASE i # 1
    <3> DEFINE k == i - 1
    <3>1. k \in DOMAIN t /\ t[k] = Q[i] /\ k \in Nat /\ k + 1 = i
      BY <1>1, <2>3
    <3> HIDE DEF k
    <3>2. \A j \in DOMAIN t : j > k => t[j].kind # "credential"
      <4> SUFFICES ASSUME NEW j \in DOMAIN t, j > k PROVE t[j].kind # "credential"
        OBVIOUS
      <4>1. j + 1 \in DOMAIN Q /\ t[j] = Q[j + 1] /\ j + 1 > i
        BY <1>1, <3>1
      <4> QED
        BY <2>1, <4>1
    <3>3. i + 1 \in DOMAIN Q => k + 1 \in DOMAIN t /\ t[k + 1] = Q[i + 1]
      <4> SUFFICES ASSUME i + 1 \in DOMAIN Q PROVE k + 1 \in DOMAIN t /\ t[k + 1] = Q[i + 1]
        OBVIOUS
      <4>1. i \in Nat
        BY <3>1
      <4>2. i + 1 # 1 /\ (i + 1) - 1 = k + 1
        BY <3>1, <4>1
      <4> QED
        BY <1>1, <4>2
    <3> QED
      BY <2>1, <3>1, <3>2, <3>3 DEF Follows, t
  <2> QED
    BY <2>2, <2>3
<1> QED
  BY <1>2, <1>3

(* The state of one phone, as the lemmas above speak of it. *)
LEMMA PhoneType ==
    ASSUME TypeOK, NEW d \in Devices
    PROVE  /\ local[d] \in Record \cup {NoRecord} /\ mainQ[d] \in Seq(Callback)
           /\ writeQ[d] \in Queues /\ doc \in Docs
           /\ fsUser[d] \in Users \cup {Nobody} /\ auth[d] \in Users \cup {Nobody}
  BY DEF TypeOK, Queues, Docs

(* The write that is answered. *)
LEMMA CommitHead ==
    ASSUME TypeOK, NEW d \in Devices, Commit(d)
    PROVE  LET q == writeQ[d][fsUser[d]]
           IN  q # <<>> /\ 1 \in DOMAIN q /\ Head(q) = q[1] /\ Head(q) \in Mutation
<1>1. writeQ[d][fsUser[d]] # <<>>
  BY DEF Commit
<1> QED
  BY <1>1, PhoneType, TakenFrom

(* The app runs on one phone at most. *)
OnePhone == \A d, e \in Devices : d = e

(* Firestore stays with, or behind, the signed-in user. *)
LEMMA FollowsStep ==
    ASSUME TypeOK, VerifiedResidue, OnePhone, NEW d \in Devices, FirestoreFollows(d),
           [Next]_vars
    PROVE  FirestoreFollows(d)'
<1>1. mainQ[d] \in Seq(Callback) /\ auth[d] \in Users \cup {Nobody}
  BY DEF TypeOK
<1>2. Follows(mainQ[d], fsUser[d], auth[d], Residue(d))
  BY DEF FirestoreFollows
<1>3. ASSUME mainQ'[d] = mainQ[d], fsUser'[d] = fsUser[d], auth'[d] = auth[d],
             Residue(d)' \subseteq Residue(d)
      PROVE  FirestoreFollows(d)'
  BY <1>2, <1>3, FollowsLess DEF FirestoreFollows
<1>4. ASSUME NEW c \in Callback, Post(d, c), UNCHANGED fsUser,
             \/ c.kind # "credential" /\ UNCHANGED auth
             \/ c.kind = "credential" /\ c.user = auth'[d]
                /\ (auth'[d] = Nobody \/ auth'[d] \notin Residue(d)),
             Residue(d)' \subseteq Residue(d)
      PROVE  FirestoreFollows(d)'
  <2>1. mainQ'[d] = Append(mainQ[d], c)
    BY <1>4 DEF Post, TypeOK
  <2>2. Follows(Append(mainQ[d], c), fsUser'[d], auth'[d], Residue(d))
    BY <1>1, <1>2, <1>4, FollowsMore, FollowsLast
  <2> QED
    BY <1>4, <2>1, <2>2, FollowsLess DEF FirestoreFollows
<1>5. ASSUME Restarted(d) PROVE FirestoreFollows(d)'
  <2>1. mainQ'[d] = <<>> /\ fsUser'[d] = auth'[d]
    BY <1>5 DEF Restarted, TypeOK
  <2> QED
    BY <2>1 DEF FirestoreFollows, Follows
<1>6. CASE UserStep(d)
  <2>1. Residue(d)' \subseteq Residue(d)
    BY <1>6, ResidueUserStep
  <2>2. CASE LogOut(d)
    <3>1. auth'[d] = Nobody /\ UNCHANGED fsUser
      BY <2>2 DEF LogOut, TypeOK
    <3>2. CASE auth[d] = Nobody
      BY <1>3, <2>1, <2>2, <3>1, <3>2 DEF LogOut
    <3>3. CASE auth[d] # Nobody
      <4>1. /\ Post(d, Credential(Nobody)) /\ Credential(Nobody) \in Callback
            /\ Credential(Nobody).kind = "credential" /\ Credential(Nobody).user = Nobody
        BY <2>2, <3>3, CallbackType DEF LogOut, Credential, CallbackOf
      <4> QED
        BY <1>4, <2>1, <3>1, <4>1
    <3> QED
      BY <3>2, <3>3
  <2>3. CASE \E op \in UpdateOp : Update(d, op)
    BY <1>3, <1>5, <2>1, <2>3 DEF Update
  <2>4. CASE UNCHANGED <<mainQ, fsUser, auth>>
    BY <1>3, <2>1, <2>4
  <2> QED
    BY <1>6, <2>2, <2>3, <2>4 DEF UserStep, ProfileAppears, OpenLogin, OpenEdit, OpenFinish,
       Cancel, Back, Resend, AskAuth
<1>7. ASSUME NEW r \in Request, AuthAnswers(d, r)
      PROVE  FirestoreFollows(d)'
  <2>1. r.user \in Users /\ UNCHANGED fsUser
    BY <1>7 DEF AuthAnswers, Request
  <2>2. /\ Credential(r.user) \in Callback
        /\ Credential(r.user).kind = "credential" /\ Credential(r.user).user = r.user
    BY <2>1, CallbackType DEF Credential, CallbackOf
  <2>3. CASE SignedIn(d, r)
    <3> DEFINE l == CallbackOf("login", r.user, NoRecord, account[r.user] = "verified")
    <3>1. l \in Callback /\ l.kind = "login"
      BY <2>1, CallbackType DEF UpdateOp, CallbackOf
    <3>2. mainQ'[d] = mainQ[d] \o <<Credential(r.user), l>> /\ auth'[d] = r.user
      BY <2>3 DEF SignedIn, TypeOK
    <3> HIDE DEF l
    <3>3. Follows(mainQ'[d], fsUser'[d], auth'[d], Residue(d)')
      BY <1>1, <2>2, <3>1, <3>2, FollowsSignIn
    <3> QED
      BY <3>3 DEF FirestoreFollows
  <2>4. CASE ~SignedIn(d, r)
    <3>1. Residue(d)' \subseteq Residue(d)
      BY <1>7, <2>4, ResidueAuthAnswers
    <3>2. CASE Registered(d, r)
      <4>1. r.user \notin Residue(d) /\ auth'[d] = r.user /\ Post(d, Credential(r.user))
        BY <3>2 DEF Registered, VerifiedResidue, TypeOK
      <4> QED
        BY <1>4, <2>1, <2>2, <3>1, <4>1
    <3>3. CASE UNCHANGED <<mainQ, auth>>
      BY <1>3, <2>1, <3>1, <3>3
    <3> QED
      BY <1>7, <2>4, <3>2, <3>3 DEF AuthAnswers, Refused, Lost
  <2> QED
    BY <2>3, <2>4
<1>8. ASSUME NEW u \in Users, ReadAnswered(d, u)
      PROVE  FirestoreFollows(d)'
  <2>1. \A b, q : /\ Snapshot(u, Overlay(b, q, u)) \in Callback
                  /\ Snapshot(u, Overlay(b, q, u)).kind = "gotUser"
    BY SnapshotType, OverlayType DEF Snapshot, CallbackOf
  <2>2. NilSnapshot(u) \in Callback /\ NilSnapshot(u).kind = "gotUser"
    BY CallbackType DEF NilSnapshot, CallbackOf
  <2>3. \E c \in Callback : Post(d, c) /\ c.kind # "credential"
    BY <1>8, <2>1, <2>2 DEF ReadAnswered
  <2> QED
    BY <1>4, <1>8, <2>3, ResidueReadAnswered DEF ReadAnswered
<1>9. CASE Commit(d)
  <2> DEFINE m == Head(writeQ[d][fsUser[d]])
  <2>1. m \in Mutation
    BY <1>9, CommitHead
  <2>2. UNCHANGED mainQ \/ \E ok \in BOOLEAN : m.live /\ Post(d, Answered(m, ok))
    BY <1>9 DEF Commit
  <2>3. Residue(d)' \subseteq Residue(d) /\ UNCHANGED <<fsUser, auth>>
    BY <1>9, ResidueCommit DEF Commit
  <2> HIDE DEF m
  <2>4. m.live => \A ok \in BOOLEAN :
           Answered(m, ok) \in Callback /\ Answered(m, ok).kind # "credential"
    BY <2>1, RecordAssumption DEF Mutation, Write, Answered, CallbackOf, Callback, Block,
       UpdateOp
  <2> QED
    BY <1>3, <1>4, <2>2, <2>3, <2>4
<1>10. CASE Revoked(d)
  <2>1. Residue(d)' \subseteq Residue(d)
    <3>1. \A u \in Users : ~Concerns(Credential(Nobody), u)
      BY DEF Concerns, Credential, CallbackOf, IsOf
    <3>2. UNCHANGED <<local, reads, writeQ>>
      BY <1>10 DEF Revoked
    <3> QED
      BY <1>10, <3>1, <3>2, ResiduePost, CallbackType DEF Revoked
  <2>2. /\ Post(d, Credential(Nobody)) /\ Credential(Nobody) \in Callback
        /\ Credential(Nobody).kind = "credential" /\ Credential(Nobody).user = Nobody
    BY <1>10, CallbackType DEF Revoked, Credential, CallbackOf
  <2>3. auth'[d] = Nobody /\ UNCHANGED fsUser
    BY <1>10 DEF Revoked, TypeOK
  <2> QED
    BY <1>4, <2>1, <2>2, <2>3
<1>11. CASE RunCallback(d)
  <2> DEFINE c == Head(mainQ[d])
  <2>1. mainQ[d] # <<>> /\ mainQ'[d] = Tail(mainQ[d]) /\ UNCHANGED auth
    BY <1>11 DEF RunCallback, RunCredential, RunLogin, RunGotUser, RunUpdated, TypeOK
  <2>2. fsUser'[d] = IF c.kind = "credential" THEN c.user ELSE fsUser[d]
    BY <1>11 DEF RunCallback, RunCredential, RunLogin, RunGotUser, RunUpdated, TypeOK,
       UpdateOp
  <2> HIDE DEF c
  <2>3. Follows(Tail(mainQ[d]), fsUser'[d], auth[d], Residue(d))
    BY <1>1, <1>2, <2>1, <2>2, FollowsRun DEF c
  <2>4. Residue(d)' \subseteq Residue(d)
    BY <1>11, ResidueRunCallback
  <2> QED
    BY <2>1, <2>3, <2>4, FollowsLess DEF FirestoreFollows
<1>12. CASE Crash(d)
  BY <1>5, <1>12 DEF Crash
<1>13. ASSUME NEW u \in Users, VerifyEmail(u)
       PROVE  FirestoreFollows(d)'
  <2>1. UNCHANGED <<mainQ, fsUser, auth>> /\ Residue(d)' = Residue(d)
    BY <1>13, ResidueElsewhere DEF VerifyEmail
  <2> QED
    BY <1>3, <2>1
<1>14. CASE UNCHANGED vars
  <2>1. UNCHANGED <<mainQ, fsUser, auth>> /\ Residue(d)' = Residue(d)
    BY <1>14, ResidueElsewhere DEF vars
  <2> QED
    BY <1>3, <2>1
<1> QED
  BY <1>6, <1>7, <1>8, <1>9, <1>10, <1>11, <1>12, <1>13, <1>14 DEF Next, ServiceStep, OnePhone

(* What a phone's Firestore has cached of a document is no other version of *)
(* it than the server's.                                                    *)
CacheFollows(d) == \A u \in Users : cache[d][u] \in {"none", doc[u]}

(* The cache of the only phone is never behind the server. *)
LEMMA CacheStep ==
    ASSUME TypeOK, OnePhone, NEW d \in Devices, CacheFollows(d), [Next]_vars
    PROVE  CacheFollows(d)'
<1>1. cache[d] \in [Users -> Status] /\ cache \in [Devices -> [Users -> Status]]
      /\ doc \in [Users -> Status]
  BY DEF TypeOK
<1>2. CASE UNCHANGED <<cache, doc>>
  BY <1>2 DEF CacheFollows
<1>3. ASSUME NEW u \in Users, ReadAnswered(d, u)
      PROVE  CacheFollows(d)'
  <2>1. UNCHANGED doc
    BY <1>3 DEF ReadAnswered
  <2>2. \A w \in Users : cache'[d][w] \in {cache[d][w], doc[w]}
    <3>1. UNCHANGED cache \/ cache' = [cache EXCEPT ![d][u] = doc[u]]
      BY <1>3 DEF ReadAnswered
    <3> QED
      BY <1>1, <3>1
  <2> QED
    BY <2>1, <2>2 DEF CacheFollows
<1>4. CASE Commit(d)
  <2>1. \/ UNCHANGED <<cache, doc>>
        \/ \E u \in Users : \E s : /\ doc' = [doc EXCEPT ![u] = s]
                                   /\ cache' = [cache EXCEPT ![d][u] = doc'[u]]
    <3> DEFINE m == Head(writeQ[d][fsUser[d]])
    <3>1. m \in Mutation
      BY <1>4, CommitHead
    <3>2. m.doc \in Users
      BY <3>1 DEF Mutation, Write
    <3> QED
      BY <1>4, <3>2 DEF Commit
  <2>2. ASSUME NEW u \in Users, NEW s, doc' = [doc EXCEPT ![u] = s],
               cache' = [cache EXCEPT ![d][u] = doc'[u]]
        PROVE  CacheFollows(d)'
    <3>1. /\ cache'[d][u] = doc'[u]
          /\ \A w \in Users : w # u => cache'[d][w] = cache[d][w] /\ doc'[w] = doc[w]
      BY <1>1, <2>2
    <3> QED
      BY <3>1 DEF CacheFollows
  <2> QED
    BY <1>2, <2>1, <2>2
<1>5. CASE \E u \in Users : VerifyEmail(u)
  BY <1>2, <1>5 DEF VerifyEmail
<1>6. CASE UNCHANGED vars
  BY <1>2, <1>6 DEF vars
<1>7. CASE UserStep(d)
  <2>1. ASSUME NEW op \in UpdateOp, Update(d, op) PROVE UNCHANGED <<cache, doc>>
    BY <2>1 DEF Update, Restarted
  <2> QED
    BY <1>2, <1>7, <2>1 DEF UserStep, ProfileAppears, OpenLogin, OpenEdit, OpenFinish,
       Cancel, Back, Resend, AskAuth, LogOut
<1>8. CASE (\E r \in Request : AuthAnswers(d, r)) \/ Revoked(d) \/ Crash(d)
  BY <1>2, <1>8 DEF AuthAnswers, Revoked, Crash, Restarted
<1>9. CASE RunCallback(d)
  BY <1>2, <1>9 DEF RunCallback, RunCredential, RunLogin, RunGotUser, RunUpdated
<1> QED
  BY <1>3, <1>4, <1>5, <1>6, <1>7, <1>8, <1>9 DEF Next, ServiceStep, OnePhone

(* A callback that stores nothing may be posted, and the record forgotten.  *)
LEMMA SteadyPosted ==
    ASSUME NEW L, NEW L2 \in {NoRecord, L}, NEW Q \in Seq(Callback), NEW W, NEW D,
           Steady(L, Q, W, D), NEW c \in Callback, ~Stores(c)
    PROVE  Steady(L2, Append(Q, c), W, D)
<1> DEFINE Q2 == Append(Q, c)
<1>1. /\ Q2 \in Seq(Callback)
      /\ DOMAIN Q \subseteq DOMAIN Q2 /\ \A k \in DOMAIN Q : Q2[k] = Q[k]
      /\ \A k \in DOMAIN Q2 : \/ k \in DOMAIN Q /\ Q2[k] = Q[k]
                              \/ Q2[k] = c
  BY AppendEntries
<1>2. \A k \in DOMAIN Q : k \in Nat /\ k + 0 = k
  OBVIOUS
<1> HIDE DEF Q2
<1>3. Fewer(Q, Q2)
  <2>1. \A k \in DOMAIN Q2 : ~Stores(Q2[k]) \/ (k + 0 \in DOMAIN Q /\ Q2[k] = Q[k + 0])
    BY <1>1, <1>2
  <2> QED
    BY <2>1 DEF Fewer
<1>4. \A k \in DOMAIN Q : Updates(Q[k]) => \E l \in DOMAIN Q2 : Updates(Q2[l])
  BY <1>1
<1> QED
  BY <1>1, <1>3, <1>4, SteadyFewer DEF Q2

(* The first callback may run: with the record as it is when it was no      *)
(* answer to an update, or with the record gone.                            *)
LEMMA SteadyRun ==
    ASSUME NEW L, NEW L2, NEW Q \in Seq(Callback), Q # <<>>, NEW W, NEW D,
           Steady(L, Q, W, D), L2 = NoRecord \/ (L2 = L /\ ~Updates(Head(Q)))
    PROVE  Steady(L2, Tail(Q), W, D)
<1> DEFINE t == Tail(Q)
<1>1. /\ t \in Seq(Callback) /\ Len(t) = Len(Q) - 1 /\ Len(Q) \in Nat
      /\ DOMAIN t = 1..Len(t) /\ DOMAIN Q = 1..Len(Q)
      /\ 1 \in DOMAIN Q /\ Head(Q) = Q[1]
      /\ \A i \in DOMAIN t : i + 1 \in DOMAIN Q /\ t[i] = Q[i + 1]
  BY TailEntries
<1> HIDE DEF t
<1>2. Fewer(Q, t)
  <2>1. \A i \in DOMAIN t : ~Stores(t[i]) \/ (i + 1 \in DOMAIN Q /\ t[i] = Q[i + 1])
    BY <1>1
  <2> QED
    BY <2>1 DEF Fewer
<1>3. ASSUME NEW k \in DOMAIN Q, Updates(Q[k]), ~Updates(Head(Q))
      PROVE  \E l \in DOMAIN t : Updates(t[l])
  <2>1. k \in Nat /\ k # 1
    BY <1>1, <1>3
  <2>2. k - 1 \in DOMAIN t /\ (k - 1) + 1 = k
    BY <1>1, <2>1
  <2>3. t[k - 1] = Q[k]
    BY <1>1, <2>2
  <2> QED
    BY <1>3, <2>2, <2>3
<1> QED
  BY <1>1, <1>2, <1>3, SteadyFewer DEF t

(* A sign-in posts two callbacks that store nothing. *)
LEMMA SteadySignedIn ==
    ASSUME NEW L, NEW Q \in Seq(Callback), NEW W, NEW D, Steady(L, Q, W, D),
           NEW b \in Callback, ~Stores(b), NEW c \in Callback, ~Stores(c)
    PROVE  Steady(L, Q \o <<b, c>>, W, D)
<1>1. Q \o <<b, c>> = Append(Append(Q, b), c)
  OBVIOUS
<1>2. Append(Q, b) \in Seq(Callback)
  OBVIOUS
<1> QED
  BY <1>1, <1>2, SteadyPosted

(* The record of phone d is as it should be. *)
SteadyPhone(d) == Steady(local[d], mainQ[d], writeQ[d], doc)

(* While nothing is being updated no write and no callback is an update. *)
LEMMA NotUpdating ==
    ASSUME NEW d \in Devices, ~Updating(d)
    PROVE  NoUpdate(writeQ[d], mainQ[d])
  BY DEF Updating, NoUpdate

(* What changes none of its parts keeps the record right. *)
LEMMA SteadyElsewhere ==
    ASSUME NEW d \in Devices, SteadyPhone(d), local'[d] = local[d], mainQ'[d] = mainQ[d],
           writeQ'[d] = writeQ[d], doc' = doc
    PROVE  SteadyPhone(d)'
  BY DEF SteadyPhone

(* A restart keeps the record right, unless it makes it stale. *)
LEMMA SteadyRestarted ==
    ASSUME TypeOK, NEW d \in Devices, SteadyPhone(d), Restarted(d), ~stale'[d]
    PROVE  SteadyPhone(d)'
<1>1. ~Updating(d)
  BY DEF Restarted, TypeOK
<1>2. /\ local'[d] = local[d] /\ doc' = doc /\ mainQ'[d] = <<>>
      /\ writeQ'[d] = [v \in Users \cup {Nobody} |-> Forget(writeQ[d][v])]
  BY DEF Restarted, TypeOK
<1>3. Steady(local[d], <<>>, [v \in Users \cup {Nobody} |-> Forget(writeQ[d][v])], doc)
  BY <1>1, NotUpdating, PhoneType, SteadyForgotten DEF SteadyPhone
<1> QED
  BY <1>2, <1>3 DEF SteadyPhone

(* Nor does an update, unless it makes the record stale: Firestore works for *)
(* the signed-in user, whose record it is, when no sign-in is under way.     *)
LEMMA SteadyUpdateSent ==
    ASSUME TypeOK, NEW d \in Devices, FirestoreFollows(d), SteadyPhone(d),
           NEW op \in UpdateOp, Update(d, op), ~stale'[d]
    PROVE  SteadyPhone(d)'
<1>1. CASE auth[d] = Nobody
  BY <1>1, SteadyRestarted DEF Update
<1>2. CASE auth[d] # Nobody
  <2> DEFINE m == [op |-> op, doc |-> auth[d], rec |-> Userobject(local[d], op), live |-> TRUE]
  <2>1. /\ UNCHANGED <<local, mainQ, doc>>
        /\ writeQ' = [writeQ EXCEPT ![d][fsUser[d]] = Append(@, m)]
    BY <1>2 DEF Update
  <2>2. ~Updating(d) /\ ~Downloading(d) /\ local[d].owner = auth[d]
    BY <1>2 DEF Update, TypeOK
  <2>3. local[d] \in Record /\ auth[d] \in Users
    BY <2>2, PhoneType DEF Update, Record
  <2>4. fsUser[d] = auth[d]
    <3>1. auth[d] \in Residue(d)
      BY <2>2, <2>3 DEF Residue, IsOf, Update
    <3>2. \A i \in DOMAIN mainQ[d] : mainQ[d][i].kind # "login"
      BY <2>2 DEF Downloading
    <3> QED
      BY <1>2, <3>1, <3>2 DEF FirestoreFollows, Follows
  <2>5. m \in Mutation /\ m.op \in UpdateOp
    <3>1. Userobject(local[d], op) \in Record
      BY <2>3 DEF Userobject, Record
    <3>2. m \in Write /\ m.rec # NoRecord
      BY <2>3, <3>1, RecordAssumption DEF Write, Record
    <3> QED
      BY <3>2 DEF Mutation
  <2>6. m.op = op /\ m.live /\ m.doc = auth[d] /\ m.rec = Userobject(local[d], op)
    OBVIOUS
  <2>7. writeQ'[d] = Queued(writeQ[d], local[d].owner, m)
    BY <2>1, <2>2, <2>4 DEF TypeOK, Queued
  <2> HIDE DEF m
  <2>8. \A k \in DOMAIN mainQ[d] : mainQ[d][k].kind # "gotUser"
    BY <2>2 DEF Downloading
  <2>9. Steady(local[d], mainQ[d], Queued(writeQ[d], local[d].owner, m), doc)
    BY <2>2, <2>3, <2>5, <2>6, <2>8, NotUpdating, PhoneType, SteadySent DEF SteadyPhone
  <2> QED
    BY <2>1, <2>7, <2>9 DEF SteadyPhone
<1> QED
  BY <1>1, <1>2

(* The answer to a download says what the document is, or will be. *)
LEMMA SteadyReadAnswered ==
    ASSUME TypeOK, NEW d \in Devices, CacheFollows(d), SteadyPhone(d),
           NEW u \in Users, ReadAnswered(d, u), ~stale'[d]
    PROVE  SteadyPhone(d)'
<1> DEFINE q == writeQ[d][fsUser[d]]
<1>1. NoUpdate(writeQ[d], mainQ[d])
  <2>1. ~Updating(d)
    BY DEF ReadAnswered, TypeOK
  <2> QED
    BY <2>1, NotUpdating
<1>2. UNCHANGED <<local, writeQ, doc>>
  BY DEF ReadAnswered
<1>3. \E c : /\ Post(d, c)
             /\ \/ c = NilSnapshot(u)
                \/ \E base \in {"none", doc[u]} :
                      /\ c = Snapshot(u, Overlay(base, q, u))
                      /\ base = doc[u] \/ Overlay(base, q, u) # "none"
  BY DEF ReadAnswered, CacheFollows
<1>4. PICK c : /\ Post(d, c)
               /\ \/ c = NilSnapshot(u)
                  \/ \E base \in {"none", doc[u]} :
                        /\ c = Snapshot(u, Overlay(base, q, u))
                        /\ base = doc[u] \/ Overlay(base, q, u) # "none"
  BY <1>3
<1>5. /\ c \in Callback /\ c.kind = "gotUser" /\ c.user = u
      /\ c.ok => IF c.rec = NoRecord THEN doc[c.user] # "onboarded"
                 ELSE c.rec.owner = c.user /\ Said(c.rec) = Coming(writeQ[d], doc, c.user)
  <2>1. CASE c = NilSnapshot(u)
    BY <2>1, CallbackType DEF NilSnapshot, CallbackOf
  <2>2. ASSUME NEW base \in {"none", doc[u]}, c = Snapshot(u, Overlay(base, q, u)),
               base = doc[u] \/ Overlay(base, q, u) # "none"
        PROVE  /\ c \in Callback /\ c.kind = "gotUser" /\ c.user = u
               /\ IF c.rec = NoRecord THEN doc[c.user] # "onboarded"
                  ELSE c.rec.owner = c.user /\ Said(c.rec) = Coming(writeQ[d], doc, c.user)
    <3> DEFINE s == Overlay(base, q, u)
    <3>1. s \in Status
      BY OverlayType
    <3>2. IF s = "none" THEN base = "none" ELSE s = Coming(writeQ[d], doc, u)
      BY <1>1, PhoneType, OverlaySays DEF SteadyPhone, Steady, NoUpdate
    <3> HIDE DEF s
    <3>3. c = Snapshot(u, s) /\ (base = doc[u] \/ s # "none")
      BY <2>2 DEF s
    <3>4. c \in Callback /\ c.kind = "gotUser" /\ c.user = u
      BY <3>1, <3>3, SnapshotType DEF Snapshot, CallbackOf
    <3>5. CASE s = "none"
      BY <3>2, <3>3, <3>4, <3>5 DEF Snapshot, CallbackOf
    <3>6. CASE s # "none"
      <4>1. c.rec = [owner |-> u, onBoard |-> s = "onboarded"]
        BY <3>3, <3>6 DEF Snapshot, CallbackOf
      <4>2. c.rec \in Record /\ c.rec.owner = u /\ Said(c.rec) = s
        <5>1. s = "fresh" \/ s = "onboarded"
          BY <3>1, <3>6 DEF Status
        <5>2. c.rec \in Record /\ c.rec.owner = u /\ c.rec.onBoard = (s = "onboarded")
          BY <4>1 DEF Record
        <5> QED
          BY <5>1, <5>2 DEF Said
      <4> QED
        BY <3>2, <3>4, <3>6, <4>2, RecordAssumption DEF Record
    <3> QED
      BY <3>5, <3>6
  <2> QED
    BY <1>4, <2>1, <2>2
<1>6. Steady(local[d], Append(mainQ[d], c), writeQ[d], doc)
  BY <1>1, <1>5, PhoneType, SteadyRead DEF SteadyPhone
<1>7. mainQ'[d] = Append(mainQ[d], c)
  BY <1>4 DEF Post, TypeOK
<1> QED
  BY <1>2, <1>6, <1>7 DEF SteadyPhone

(* The answer to a write, unless it loses a create. *)
LEMMA SteadyCommit ==
    ASSUME TypeOK, NEW d \in Devices, SteadyPhone(d), Commit(d), ~stale'[d]
    PROVE  SteadyPhone(d)'
<1> DEFINE v == fsUser[d]
           m == Head(writeQ[d][v])
<1>1. /\ writeQ[d][v] # <<>> /\ UNCHANGED local
      /\ writeQ' = [writeQ EXCEPT ![d][v] = Tail(@)]
  BY CommitHead DEF Commit
<1>2. writeQ'[d] = Unqueued(writeQ[d], v)
  BY <1>1 DEF TypeOK, Unqueued
<1>3. m \in Mutation
  BY CommitHead
<1>4. CASE m.op = "create"
  <2>1. ~m.live
    BY <1>3, <1>4 DEF Mutation, UpdateOp
  <2>2. UNCHANGED mainQ /\ doc' = [doc EXCEPT ![m.doc] = "fresh"]
    BY <1>4, <2>1 DEF Commit, Applies, Applied, TypeOK
  <2>3. Steady(local[d], mainQ[d], Unqueued(writeQ[d], v), [doc EXCEPT ![m.doc] = "fresh"])
    BY <1>1, <1>4, PhoneType, SteadyCreate DEF SteadyPhone
  <2> QED
    BY <1>1, <1>2, <2>2, <2>3 DEF SteadyPhone
<1>5. CASE m.op \in UpdateOp
  <2>1. \E ok \in BOOLEAN :
           /\ IF m.live THEN Post(d, Answered(m, ok)) ELSE UNCHANGED mainQ
           /\ doc' = IF ok THEN [doc EXCEPT ![m.doc] = Applied(m, @)] ELSE doc
    BY DEF Commit
  <2>2. PICK ok \in BOOLEAN :
           /\ IF m.live THEN Post(d, Answered(m, ok)) ELSE UNCHANGED mainQ
           /\ doc' = IF ok THEN [doc EXCEPT ![m.doc] = Applied(m, @)] ELSE doc
    BY <2>1
  <2>3. /\ m.live
        /\ Steady(local[d], Append(mainQ[d], Answered(m, ok)), Unqueued(writeQ[d], v), doc')
    BY <1>1, <1>5, <2>2, PhoneType, SteadyUpdate DEF SteadyPhone
  <2>4. mainQ'[d] = Append(mainQ[d], Answered(m, ok))
    BY <2>2, <2>3 DEF Post, TypeOK
  <2> QED
    BY <1>1, <1>2, <2>3, <2>4 DEF SteadyPhone
<1> QED
  BY <1>3, <1>4, <1>5 DEF Mutation, Write

(* A callback that runs, unless it writes a new user for another account.   *)
LEMMA SteadyRunCallback ==
    ASSUME TypeOK, NEW d \in Devices, SteadyPhone(d), RunCallback(d), ~stale'[d]
    PROVE  SteadyPhone(d)'
<1> DEFINE c == Head(mainQ[d])
           Q2 == Tail(mainQ[d])
<1>1. /\ mainQ[d] # <<>> /\ mainQ'[d] = Q2
      /\ RunCredential(d, c) \/ RunLogin(d, c) \/ RunGotUser(d, c) \/ RunUpdated(d, c)
  BY DEF RunCallback, TypeOK
<1>2. doc' = doc
  BY <1>1 DEF RunCredential, RunLogin, RunGotUser, RunUpdated
<1>3. 1 \in DOMAIN mainQ[d] /\ c = mainQ[d][1] /\ c \in Callback
  BY <1>1, PhoneType
<1>4. Steady(local[d], mainQ[d], writeQ[d], doc)
  BY DEF SteadyPhone
<1>5. /\ ~Updates(c) => Steady(local[d], Q2, writeQ[d], doc)
      /\ Steady(NoRecord, Q2, writeQ[d], doc)
  BY <1>1, <1>4, PhoneType, SteadyRun
<1> HIDE DEF c, Q2
<1>6. CASE UNCHANGED <<local, writeQ>> /\ ~Updates(c)
  BY <1>1, <1>2, <1>5, <1>6 DEF SteadyPhone
<1>7. CASE RunCredential(d, c) \/ RunLogin(d, c)
  BY <1>6, <1>7 DEF RunCredential, RunLogin, Updates, UpdateOp
<1>8. CASE RunUpdated(d, c)
  <2>1. CASE ~c.ok
    BY <1>6, <1>8, <2>1 DEF RunUpdated, Updates
  <2>2. CASE c.ok
    <3>1. local'[d] = c.rec /\ UNCHANGED writeQ /\ Updates(c)
      BY <1>8, <2>2 DEF RunUpdated, Updates, TypeOK
    <3>2. Said(c.rec) = Coming(writeQ[d], doc, c.rec.owner)
      BY <1>3, <1>4, <3>1 DEF Steady, AnswerRight
    <3>3. Steady(c.rec, Q2, writeQ[d], doc)
      BY <1>5, <3>2, SteadyStored
    <3> QED
      BY <1>1, <1>2, <3>1, <3>3 DEF SteadyPhone
  <2> QED
    BY <2>1, <2>2
<1>9. CASE RunGotUser(d, c)
  <2>1. c.kind = "gotUser" /\ c.user \in Users /\ Stores(c)
    BY <1>3, <1>9 DEF RunGotUser, Stores, Callback, Block
  <2>2. CASE ~c.ok
    BY <1>6, <1>9, <2>2 DEF RunGotUser, Updates
  <2>3. CASE c.ok /\ c.rec # NoRecord
    <3>1. local'[d] = c.rec /\ UNCHANGED writeQ
      BY <1>9, <2>3 DEF RunGotUser, TypeOK
    <3>2. Said(c.rec) = Coming(writeQ[d], doc, c.rec.owner)
      BY <1>3, <1>4, <2>1, <2>3 DEF Steady, SnapshotRight
    <3>3. Steady(c.rec, Q2, writeQ[d], doc)
      BY <1>5, <3>2, SteadyStored
    <3> QED
      BY <1>1, <1>2, <3>1, <3>3 DEF SteadyPhone
  <2>4. CASE c.ok /\ c.rec = NoRecord
    <3> DEFINE m == [op |-> "create", doc |-> c.user, rec |-> NoRecord, live |-> FALSE]
    <3>1. /\ local'[d] = FreshUser(c.user) /\ fsUser[d] = c.user
          /\ writeQ' = [writeQ EXCEPT ![d][fsUser[d]] = Append(@, m)]
      BY <1>9, <2>4 DEF RunGotUser, TypeOK
    <3>2. m \in Mutation /\ m.op = "create" /\ m.doc = c.user
      BY <2>1 DEF Mutation, Write, UpdateOp
    <3>3. writeQ'[d] = Queued(writeQ[d], c.user, m)
      BY <3>1 DEF TypeOK, Queued
    <3> HIDE DEF m
    <3>4. doc[c.user] # "onboarded"
      BY <1>3, <1>4, <2>1, <2>4 DEF Steady, SnapshotRight
    <3>5. NoUpdate(writeQ[d], Q2)
      <4>1. \A v \in Users \cup {Nobody} : \A i \in DOMAIN writeQ[d][v] :
               writeQ[d][v][i].op \notin UpdateOp
        BY <1>3, <1>4, <2>1 DEF Steady, UpdateAlone
      <4>2. \A k \in DOMAIN Q2 : k \in Nat /\ k + 1 \in DOMAIN mainQ[d]
                                 /\ k + 1 # 1 /\ Q2[k] = mainQ[d][k + 1]
        BY <1>1, PhoneType, TailEntries DEF Q2
      <4>3. \A k \in DOMAIN mainQ[d] : k # 1 => mainQ[d][k].kind \notin UpdateOp
        BY <1>3, <1>4, <2>1 DEF Steady, AnswerAlone
      <4> QED
        BY <4>1, <4>2, <4>3 DEF NoUpdate
    <3>6. Q2 \in Seq(Callback)
      BY <1>1, PhoneType, TailEntries DEF Q2
    <3>7. Steady(FreshUser(c.user), Q2, Queued(writeQ[d], c.user, m), doc)
      BY <1>5, <2>1, <3>2, <3>4, <3>5, <3>6, PhoneType, SteadyCreated
    <3> QED
      BY <1>1, <1>2, <3>1, <3>3, <3>7 DEF SteadyPhone
  <2> QED
    BY <2>2, <2>3, <2>4
<1> QED
  BY <1>1, <1>7, <1>8, <1>9

(* The record of the only phone stays right until it is stale. *)
LEMMA SteadyStep ==
    ASSUME TypeOK, OnePhone, NEW d \in Devices, FirestoreFollows(d), CacheFollows(d),
           ~stale[d] => SteadyPhone(d), [Next]_vars, ~stale'[d]
    PROVE  ~stale[d] /\ SteadyPhone(d)'
<1>1. CASE UNCHANGED <<local, mainQ, writeQ, doc, stale>>
  BY <1>1, SteadyElsewhere
<1>2. CASE UserStep(d)
  <2>1. CASE LogOut(d)
    <3>1. UNCHANGED <<writeQ, doc, stale>> /\ local'[d] = NoRecord
      BY <2>1 DEF LogOut, TypeOK
    <3>2. Steady(local[d], mainQ[d], writeQ[d], doc)
      BY <3>1 DEF SteadyPhone
    <3>3. CASE auth[d] = Nobody
      <4>1. Steady(NoRecord, mainQ[d], writeQ[d], doc)
        BY <3>2 DEF Steady, LocalRight
      <4> QED
        BY <2>1, <3>1, <3>3, <4>1 DEF LogOut, SteadyPhone
    <3>4. CASE auth[d] # Nobody
      <4>1. mainQ'[d] = Append(mainQ[d], Credential(Nobody))
        BY <2>1, <3>4 DEF LogOut, Post, TypeOK
      <4>2. Credential(Nobody) \in Callback /\ ~Stores(Credential(Nobody))
        BY CallbackType DEF Credential, CallbackOf, Stores, UpdateOp
      <4>3. Steady(NoRecord, Append(mainQ[d], Credential(Nobody)), writeQ[d], doc)
        BY <3>2, <4>2, PhoneType, SteadyPosted
      <4> QED
        BY <3>1, <4>1, <4>3 DEF SteadyPhone
    <3> QED
      BY <3>3, <3>4
  <2>2. ASSUME NEW op \in UpdateOp, Update(d, op)
        PROVE  ~stale[d] /\ SteadyPhone(d)'
    <3>1. ~stale[d]
      BY <2>2 DEF Update, Restarted, TypeOK
    <3> QED
      BY <2>2, <3>1, SteadyUpdateSent
  <2> QED
    BY <1>1, <1>2, <2>1, <2>2 DEF UserStep, ProfileAppears, OpenLogin, OpenEdit, OpenFinish,
       Cancel, Back, Resend, AskAuth
<1>3. ASSUME NEW r \in Request, AuthAnswers(d, r)
      PROVE  ~stale[d] /\ SteadyPhone(d)'
  <2>1. r.user \in Users /\ UNCHANGED <<local, writeQ, doc, stale>>
    BY <1>3 DEF AuthAnswers, Request
  <2>2. Steady(local[d], mainQ[d], writeQ[d], doc)
    BY <2>1 DEF SteadyPhone
  <2>3. Credential(r.user) \in Callback /\ ~Stores(Credential(r.user))
    BY <2>1, CallbackType DEF Credential, CallbackOf, Stores, UpdateOp
  <2>4. CASE SignedIn(d, r)
    <3> DEFINE l == CallbackOf("login", r.user, NoRecord, account[r.user] = "verified")
    <3>1. l \in Callback /\ ~Stores(l)
      BY <2>1, CallbackType DEF UpdateOp, CallbackOf, Stores
    <3>2. mainQ'[d] = mainQ[d] \o <<Credential(r.user), l>>
      BY <2>4 DEF SignedIn, TypeOK
    <3> HIDE DEF l
    <3>3. Steady(local[d], mainQ[d] \o <<Credential(r.user), l>>, writeQ[d], doc)
      BY <2>2, <2>3, <3>1, PhoneType, SteadySignedIn
    <3> QED
      BY <2>1, <3>2, <3>3 DEF SteadyPhone
  <2>5. CASE Registered(d, r)
    <3>1. mainQ'[d] = Append(mainQ[d], Credential(r.user))
      BY <2>5 DEF Registered, Post, TypeOK
    <3>2. Steady(local[d], Append(mainQ[d], Credential(r.user)), writeQ[d], doc)
      BY <2>2, <2>3, PhoneType, SteadyPosted
    <3> QED
      BY <2>1, <3>1, <3>2 DEF SteadyPhone
  <2>6. CASE UNCHANGED mainQ
    BY <1>1, <2>1, <2>6
  <2> QED
    BY <1>3, <2>4, <2>5, <2>6 DEF AuthAnswers, Refused, Lost
<1>4. CASE Revoked(d)
  <2>1. /\ mainQ'[d] = Append(mainQ[d], Credential(Nobody))
        /\ UNCHANGED <<local, writeQ, doc, stale>>
    BY <1>4 DEF Revoked, Post, TypeOK
  <2>2. Credential(Nobody) \in Callback /\ ~Stores(Credential(Nobody))
    BY CallbackType DEF Credential, CallbackOf, Stores, UpdateOp
  <2>3. Steady(local[d], Append(mainQ[d], Credential(Nobody)), writeQ[d], doc)
    BY <2>1, <2>2, PhoneType, SteadyPosted DEF SteadyPhone
  <2> QED
    BY <2>1, <2>3 DEF SteadyPhone
<1>5. ASSUME NEW u \in Users, ReadAnswered(d, u)
      PROVE  ~stale[d] /\ SteadyPhone(d)'
  <2>1. ~stale[d]
    BY <1>5 DEF ReadAnswered, TypeOK
  <2> QED
    BY <1>5, <2>1, SteadyReadAnswered
<1>6. CASE Commit(d)
  <2>1. ~stale[d]
    BY <1>6 DEF Commit, TypeOK
  <2> QED
    BY <1>6, <2>1, SteadyCommit
<1>7. CASE RunCallback(d)
  <2>1. ~stale[d]
    BY <1>7 DEF RunCallback, RunCredential, RunLogin, RunGotUser, RunUpdated, TypeOK
  <2> QED
    BY <1>7, <2>1, SteadyRunCallback
<1>8. CASE Crash(d)
  <2>1. Restarted(d) /\ ~stale[d]
    BY <1>8 DEF Crash, Restarted, TypeOK
  <2> QED
    BY <2>1, SteadyRestarted
<1>9. CASE \E u \in Users : VerifyEmail(u)
  BY <1>1, <1>9 DEF VerifyEmail
<1>10. CASE UNCHANGED vars
  BY <1>1, <1>10 DEF vars
<1> QED
  BY <1>2, <1>3, <1>4, <1>5, <1>6, <1>7, <1>8, <1>9, <1>10 DEF Next, ServiceStep, OnePhone

(* What holds of the record of the only phone, and of what it waits for: the *)
(* strengthening of the two properties below.                               *)
OnePhoneInv ==
    \A d \in Devices :
        FirestoreFollows(d) /\ CacheFollows(d) /\ (~stale[d] => SteadyPhone(d))

(* On a phone on which the app has just been installed it holds. *)
LEMMA OnePhoneInit == Init => OnePhoneInv
<1> SUFFICES ASSUME Init, NEW d \in Devices
             PROVE  FirestoreFollows(d) /\ CacheFollows(d) /\ SteadyPhone(d)
  BY DEF OnePhoneInv
<1>1. /\ local[d] = NoRecord /\ mainQ[d] = <<>> /\ fsUser[d] = auth[d]
      /\ \A v \in Users \cup {Nobody} : writeQ[d][v] = <<>>
      /\ \A u \in Users : cache[d][u] = "none"
  BY DEF Init
<1>2. FirestoreFollows(d) /\ CacheFollows(d)
  BY <1>1 DEF FirestoreFollows, Follows, CacheFollows
<1>3. \A v \in Users \cup {Nobody} : DOMAIN writeQ[d][v] = {}
  BY <1>1
<1>4. DOMAIN mainQ[d] = {}
  BY <1>1
<1>5. /\ OwnWrites(writeQ[d]) /\ UpdateAlone(writeQ[d], mainQ[d]) /\ AnswerAlone(mainQ[d])
      /\ UpdateRight(writeQ[d], doc) /\ AnswerRight(mainQ[d], writeQ[d], doc)
      /\ SnapshotRight(mainQ[d], writeQ[d], doc) /\ CreateRight(writeQ[d], doc)
      /\ LocalRight(local[d], mainQ[d], writeQ[d], doc)
  BY <1>1, <1>3, <1>4 DEF OwnWrites, UpdateAlone, AnswerAlone, UpdateRight, AnswerRight,
     SnapshotRight, CreateRight, Creates, LocalRight
<1> QED
  BY <1>2, <1>5 DEF SteadyPhone, Steady

(* With one phone it is inductive. *)
LEMMA OnePhoneStep ==
    ASSUME OnePhone, TypeOK, VerifiedResidue, OnePhoneInv, [Next]_vars
    PROVE  OnePhoneInv'
<1> SUFFICES ASSUME NEW d \in Devices
             PROVE  (FirestoreFollows(d) /\ CacheFollows(d) /\ (~stale[d] => SteadyPhone(d)))'
  BY DEF OnePhoneInv
<1>1. FirestoreFollows(d) /\ CacheFollows(d) /\ (~stale[d] => SteadyPhone(d))
  BY DEF OnePhoneInv
<1>2. FirestoreFollows(d)' /\ CacheFollows(d)'
  BY <1>1, FollowsStep, CacheStep
<1>3. ~stale'[d] => SteadyPhone(d)'
  BY <1>1, SteadyStep
<1> QED
  BY <1>2, <1>3

(* With one phone, whatever the order of the logins, logouts and answers,   *)
(* the stored record is the document once all has been answered, until a    *)
(* step has made it stale.                                                  *)
THEOREM RecordOfOnePhone ==
    ASSUME OnePhone PROVE Spec => []RecordMatchesDocument
<1>1. OnePhoneInv /\ TypeOK => RecordMatchesDocument
  <2> SUFFICES ASSUME OnePhoneInv, TypeOK, NEW d \in Devices,
                      Quiet(d), local[d] # NoRecord, ~stale[d]
               PROVE  doc[local[d].owner] =
                         IF local[d].onBoard THEN "onboarded" ELSE "fresh"
    BY DEF RecordMatchesDocument
  <2>1. LocalRight(local[d], mainQ[d], writeQ[d], doc)
    BY DEF OnePhoneInv, SteadyPhone, Steady
  <2>2. local[d].owner \in Users
    BY DEF TypeOK, Record
  <2>3. DOMAIN mainQ[d] = {} /\ DOMAIN writeQ[d][local[d].owner] = {}
    BY <2>2 DEF Quiet
  <2> QED
    BY <2>1, <2>3 DEF LocalRight, Said, Coming, Creates
<1>2. OnePhoneInv /\ TypeOK /\ VerifiedResidue /\ [Next]_vars => OnePhoneInv'
  BY OnePhoneStep
<1> QED
  BY <1>1, <1>2, OnePhoneInit, AlwaysVerified, TypeCorrect, PTL DEF Spec

(* With one phone a completed registration is undone by nothing but a write *)
(* that follows a step which made the record stale.                         *)
THEOREM OnboardingOfOnePhone ==
    ASSUME OnePhone PROVE Spec => OnboardingKeptUnlessStale
<1>1. OnePhoneInv /\ TypeOK /\ [Next]_vars =>
        [\A u \in Users : doc[u] = "onboarded" /\ doc'[u] # "onboarded"
            => \E d \in Devices : stale[d]]_vars
  <2> SUFFICES ASSUME OnePhoneInv, TypeOK, [Next]_vars, NEW u \in Users,
                      doc[u] = "onboarded", doc'[u] # "onboarded"
               PROVE  \E d \in Devices : stale[d]
    OBVIOUS
  <2>1. PICK d \in Devices : Commit(d)
    <3>1. ASSUME NEW e \in Devices, UserStep(e) PROVE UNCHANGED doc
      <4>1. ASSUME NEW op \in UpdateOp, Update(e, op) PROVE UNCHANGED doc
        BY <4>1 DEF Update, Restarted
      <4> QED
        BY <3>1, <4>1 DEF UserStep, ProfileAppears, OpenLogin, OpenEdit, OpenFinish, Cancel,
           Back, Resend, LogOut, AskAuth
    <3>2. ASSUME NEW e \in Devices, RunCallback(e) \/ Crash(e) \/ Revoked(e)
          PROVE  UNCHANGED doc
      BY <3>2 DEF RunCallback, RunCredential, RunLogin, RunGotUser, RunUpdated, Crash,
         Restarted, Revoked
    <3>3. ASSUME NEW e \in Devices, NEW r \in Request, AuthAnswers(e, r) PROVE UNCHANGED doc
      BY <3>3 DEF AuthAnswers
    <3>4. ASSUME NEW e \in Devices, NEW w \in Users, ReadAnswered(e, w) PROVE UNCHANGED doc
      BY <3>4 DEF ReadAnswered
    <3>5. CASE UNCHANGED vars \/ \E w \in Users : VerifyEmail(w)
      BY <3>5 DEF vars, VerifyEmail
    <3> QED
      BY <3>1, <3>2, <3>3, <3>4, <3>5 DEF Next, ServiceStep
  <2> DEFINE v == fsUser[d]
             m == Head(writeQ[d][v])
  <2>2. 1 \in DOMAIN writeQ[d][v] /\ m = writeQ[d][v][1] /\ m \in Mutation
    BY <2>1, CommitHead
  <2>3. doc' = [doc EXCEPT ![m.doc] = Applied(m, @)]
    BY <2>1 DEF Commit
  <2> HIDE DEF m
  <2>4. m.doc = u /\ m.op = "create"
    BY <2>2, <2>3 DEF TypeOK, Applied, Mutation, Write, UpdateOp
  <2> SUFFICES ASSUME ~stale[d] PROVE FALSE
    OBVIOUS
  <2>5. OwnWrites(writeQ[d]) /\ CreateRight(writeQ[d], doc)
    BY DEF OnePhoneInv, SteadyPhone, Steady
  <2>6. v = u
    BY <2>2, <2>4, <2>5, PhoneType DEF OwnWrites
  <2> QED
    BY <2>2, <2>4, <2>5, <2>6 DEF CreateRight, Creates
<1>2. OnePhoneInv /\ TypeOK /\ VerifiedResidue /\ [Next]_vars => OnePhoneInv'
  BY OnePhoneStep
<1> QED
  BY <1>1, <1>2, OnePhoneInit, AlwaysVerified, TypeCorrect, PTL
     DEF Spec, OnboardingKeptUnlessStale

=============================================================================
