------------------------------ MODULE Session ------------------------------
(***************************************************************************)
(* Who is signed in, and whose record the app keeps.                       *)
(*                                                                         *)
(* MUser.swift holds the signed-in user twice: Firebase Auth keeps the     *)
(* account (auth), and UserDefaults keeps a copy of a document of the      *)
(* User collection under kCURRENTUSER (local).  The two are changed by     *)
(* different callbacks, all of which run one at a time on the main queue   *)
(* (mainQ) of the phone that asked for them.  Firestore sends the writes   *)
(* of the account it knows (fsUser) from a persistent queue of that        *)
(* account (writeQ).                                                       *)
(*                                                                         *)
(* A document is abstracted to its key and its onBoard field, the only     *)
(* field another part of the app branches on; the purchase history has a   *)
(* module of its own.                                                      *)
(***************************************************************************)
EXTENDS Naturals, Sequences

CONSTANTS
    Devices,      \* phones that run the app
    Users,        \* user ids: Auth uids, which are the keys of collection User
    Nobody,       \* Auth.auth().currentUser == nil
    NoRecord,     \* nothing stored under kCURRENTUSER
    MaxTaps,      \* bound: requests and profile updates started on one phone
    MaxFaults     \* bound: failures and restarts of one phone

ASSUME NobodyAssumption == Nobody \notin Users
ASSUME RecordAssumption == NoRecord \notin [owner : Users, onBoard : BOOLEAN]
ASSUME BoundAssumption == MaxTaps \in Nat /\ MaxFaults \in Nat

VARIABLES
    account,      \* the Auth service: what it knows of each user
    doc,          \* collection User on the server
    auth,         \* Auth.auth().currentUser
    local,        \* UserDefaults kCURRENTUSER
    mainQ,        \* callbacks waiting for the main thread
    fsUser,       \* the account Firestore works for
    writeQ,       \* Firestore's pending writes, one queue per account
    cache,        \* Firestore's cache of collection User
    reads,        \* downloadUserFromFirestore calls without an answer
    requests,     \* Auth requests without an answer
    view,         \* what the user looks at
    shown,        \* what the profile screen showed when it last appeared
    taps, faults, \* the counters the bounds are about
    crossed,      \* history: a sign-in found another user's record or work
    stale         \* history: an update overlapped other work on the record, a
                  \* write was made for another user, or its outcome was lost

auths == <<account, auth, fsUser, requests>>
store == <<doc, writeQ, cache, reads>>
ui    == <<view, shown>>
bounds == <<taps, faults>>
history == <<crossed, stale>>
vars == <<auths, store, local, mainQ, ui, bounds, history>>

Record == [owner : Users, onBoard : BOOLEAN]
Status == {"none", "fresh", "onboarded"}
Account == {"unknown", "unverified", "mailed", "verified"}
UpdateOp == {"edit", "finish"}
Write == [op : UpdateOp \cup {"create"}, doc : Users,
          rec : Record \cup {NoRecord}, live : BOOLEAN]
Mutation == {m \in Write : /\ m.live => m.op \in UpdateOp
                           /\ m.op \in UpdateOp => m.rec # NoRecord}
Block == [kind : {"credential", "login", "gotUser", "edit", "finish"},
          user : Users \cup {Nobody}, rec : Record \cup {NoRecord}, ok : BOOLEAN]
Callback == {c \in Block : /\ c.kind \in {"login", "gotUser"} => c.user \in Users
                           /\ c.kind \in UpdateOp => c.rec # NoRecord}
Request == [kind : {"signIn", "register"}, user : Users]

TypeOK ==
    /\ account \in [Users -> Account]
    /\ doc \in [Users -> Status]
    /\ auth \in [Devices -> Users \cup {Nobody}]
    /\ local \in [Devices -> Record \cup {NoRecord}]
    /\ mainQ \in [Devices -> Seq(Callback)]
    /\ fsUser \in [Devices -> Users \cup {Nobody}]
    /\ writeQ \in [Devices -> [Users \cup {Nobody} -> Seq(Mutation)]]
    /\ cache \in [Devices -> [Users -> Status]]
    /\ reads \in [Devices -> [Users -> Nat]]
    /\ requests \in [Devices -> SUBSET Request]
    /\ view \in [Devices -> {"tabs", "login", "edit", "finish"}]
    /\ shown \in [Devices -> {"login", "finish", "active"}]
    /\ taps \in [Devices -> Nat]
    /\ faults \in [Devices -> Nat]
    /\ crossed \in [Devices -> BOOLEAN]
    /\ stale \in [Devices -> BOOLEAN]

-----------------------------------------------------------------------------
(* What the app computes from its state.                                    *)

\* Mutant: currentUser() does not ask Auth.
CurrentUserOfRecord(a, l) == l

\* MUser.currentUser(): the stored record, if anybody is signed in at all.
CurrentUser(a, l) == IF a = Nobody THEN NoRecord ELSE l

\* checkLoginStatus and checkOnBoardingStatus: the buttons of the profile.
Shown(a, l) ==
    IF CurrentUser(a, l) = NoRecord THEN "login"
    ELSE IF l.onBoard THEN "active" ELSE "finish"

\* MUser(_objectId:_email:_firstName:_lastName:)
FreshUser(u) == [owner |-> u, onBoard |-> FALSE]

\* userobject: a copy of the record with the new values set.
Userobject(l, op) == IF op = "finish" THEN [l EXCEPT !.onBoard = TRUE] ELSE l

\* A document as the Firestore client shows it: the server's or the cached
\* one with the pending writes of queue q applied in order.  An update of a
\* document that does not exist does nothing, a create starts it afresh.
Created(q, u) == \E i \in DOMAIN q : q[i].op = "create" /\ q[i].doc = u
FinishedLast(q, u) ==
    \E i \in DOMAIN q :
        /\ q[i].op = "finish" /\ q[i].doc = u
        /\ \A j \in DOMAIN q : j > i => ~(q[j].op = "create" /\ q[j].doc = u)
Overlay(base, q, u) ==
    IF base = "none" /\ ~Created(q, u) THEN "none"
    ELSE IF FinishedLast(q, u) \/ (base = "onboarded" /\ ~Created(q, u))
         THEN "onboarded" ELSE "fresh"

\* The server applies a write; FALSE when an update finds no document.
Applies(m, s) == m.op = "create" \/ s # "none"
Applied(m, s) ==
    CASE m.op = "create" -> "fresh"
      [] m.op = "finish" -> "onboarded"
      [] OTHER -> s

CallbackOf(kind, u, rec, ok) == [kind |-> kind, user |-> u, rec |-> rec, ok |-> ok]

\* A change of the signed-in user posts a notification to the main queue.
Credential(u) == CallbackOf("credential", u, NoRecord, TRUE)

\* The users whose record, download or update is still on the phone: the
\* history variable crossed is about them.
IsOf(rec, u) == rec # NoRecord /\ rec.owner = u
Concerns(c, u) ==
    \/ c.kind = "gotUser" /\ c.user = u
    \/ c.kind = "login" /\ c.ok /\ c.user = u
    \/ IsOf(c.rec, u)
Residue(d) ==
    {u \in Users :
        \/ IsOf(local[d], u)
        \/ reads[d][u] > 0
        \/ \E i \in DOMAIN mainQ[d] : Concerns(mainQ[d][i], u)
        \/ \E v \in Users \cup {Nobody} : \E i \in DOMAIN writeQ[d][v] :
              IsOf(writeQ[d][v][i].rec, u)}

\* An update of the profile waits for the server or for the main thread.
Updating(d) ==
    \/ \E v \in Users \cup {Nobody} : \E i \in DOMAIN writeQ[d][v] :
          writeQ[d][v][i].op \in UpdateOp
    \/ \E i \in DOMAIN mainQ[d] : mainQ[d][i].kind \in UpdateOp

\* A download of a user waits for the server or for the main thread.
Downloading(d) ==
    \/ \E u \in Users : reads[d][u] > 0
    \/ \E i \in DOMAIN mainQ[d] : mainQ[d][i].kind \in {"login", "gotUser"}

Tap(d) == taps[d] < MaxTaps /\ taps' = [taps EXCEPT ![d] = @ + 1]
Fault(d) == faults[d] < MaxFaults /\ faults' = [faults EXCEPT ![d] = @ + 1]
Post(d, c) == mainQ' = [mainQ EXCEPT ![d] = Append(@, c)]
Look(d, v) == view' = [view EXCEPT ![d] = v]

\* The app has just been installed on every phone; accounts and documents
\* may be left from earlier installations.
Init ==
    /\ account \in [Users -> Account]
    /\ doc \in [Users -> Status]
    /\ \A u \in Users : doc[u] # "none" => account[u] = "verified"
    /\ auth = [d \in Devices |-> Nobody]
    /\ local = [d \in Devices |-> NoRecord]
    /\ mainQ = [d \in Devices |-> <<>>]
    /\ fsUser = [d \in Devices |-> Nobody]
    /\ writeQ = [d \in Devices |-> [u \in Users \cup {Nobody} |-> <<>>]]
    /\ cache = [d \in Devices |-> [u \in Users |-> "none"]]
    /\ reads = [d \in Devices |-> [u \in Users |-> 0]]
    /\ requests = [d \in Devices |-> {}]
    /\ view = [d \in Devices |-> "tabs"]
    /\ shown = [d \in Devices |-> "login"]
    /\ taps = [d \in Devices |-> 0]
    /\ faults = [d \in Devices |-> 0]
    /\ crossed = [d \in Devices |-> FALSE]
    /\ stale = [d \in Devices |-> FALSE]

-----------------------------------------------------------------------------
(* What the user does.                                                      *)

\* The profile tab comes to the front: viewDidAppear.
ProfileAppears(d) ==
    /\ view[d] = "tabs"
    /\ shown' = [shown EXCEPT ![d] = Shown(auth[d], local[d])]
    /\ UNCHANGED <<auths, store, local, mainQ, view, bounds, history>>

\* The profile trusts the button it showed when it last appeared; an item's
\* screen asks currentUser() when Add to basket is pressed.
OpenLogin(d) ==
    /\ view[d] = "tabs"
    /\ shown[d] = "login" \/ CurrentUser(auth[d], local[d]) = NoRecord
    /\ Look(d, "login")
    /\ UNCHANGED <<auths, store, local, mainQ, shown, bounds, history>>

OpenEdit(d) ==
    /\ view[d] = "tabs" /\ shown[d] # "login"
    /\ Look(d, "edit")
    /\ UNCHANGED <<auths, store, local, mainQ, shown, bounds, history>>

OpenFinish(d) ==
    /\ view[d] = "tabs" /\ shown[d] = "finish"
    /\ Look(d, "finish")
    /\ UNCHANGED <<auths, store, local, mainQ, shown, bounds, history>>

\* A sheet is dismissed: the profile under it does not appear again.
Cancel(d) ==
    /\ view[d] \in {"login", "finish"}
    /\ Look(d, "tabs")
    /\ UNCHANGED <<auths, store, local, mainQ, shown, bounds, history>>

\* The edit screen is popped: the profile appears again.
Back(d) ==
    /\ view[d] = "edit"
    /\ Look(d, "tabs")
    /\ shown' = [shown EXCEPT ![d] = Shown(auth[d], local[d])]
    /\ UNCHANGED <<auths, store, local, mainQ, bounds, history>>

\* loginButtonPressed or registerButtonPressed, for the user that is typed.
AskAuth(d, kind, u) ==
    /\ view[d] = "login"
    /\ [kind |-> kind, user |-> u] \notin requests[d]
    /\ Tap(d)
    /\ requests' = [requests EXCEPT ![d] = @ \cup {[kind |-> kind, user |-> u]}]
    /\ UNCHANGED <<account, auth, fsUser, store, local, mainQ, ui, faults, history>>

\* resendEmailButtomPressed: the mail goes to the signed-in user, if any.
Resend(d) ==
    /\ view[d] = "login"
    /\ auth[d] # Nobody
    /\ account[auth[d]] = "unverified"
    /\ account' = [account EXCEPT ![auth[d]] = "mailed"]
    /\ UNCHANGED <<auth, fsUser, requests, store, local, mainQ, ui, bounds, history>>

\* The user follows the link of the mail.
VerifyEmail(u) ==
    /\ account[u] = "mailed"
    /\ account' = [account EXCEPT ![u] = "verified"]
    /\ UNCHANGED <<auth, fsUser, requests, store, local, mainQ, ui, bounds, history>>

\* Mutant: the key is overwritten with a null instead of removed.
LogOutToNull(d) ==
    /\ view[d] = "edit"
    /\ auth' = [auth EXCEPT ![d] = Nobody]
    /\ local' = [local EXCEPT ![d] = Nobody]
    /\ IF auth[d] = Nobody THEN UNCHANGED mainQ ELSE Post(d, Credential(Nobody))
    /\ Look(d, "tabs")
    /\ shown' = [shown EXCEPT ![d] = "login"]
    /\ UNCHANGED <<account, fsUser, requests, store, bounds, history>>

\* logOutUser: signOut, forget the record, pop the edit screen.
LogOut(d) ==
    /\ view[d] = "edit"
    /\ auth' = [auth EXCEPT ![d] = Nobody]
    /\ local' = [local EXCEPT ![d] = NoRecord]
    /\ IF auth[d] = Nobody THEN UNCHANGED mainQ ELSE Post(d, Credential(Nobody))
    /\ Look(d, "tabs")
    /\ shown' = [shown EXCEPT ![d] = "login"]
    /\ UNCHANGED <<account, fsUser, requests, store, bounds, history>>

\* What a restart leaves: the Auth user, the record, the cache and the
\* pending writes, but none of their completion blocks.
Forget(q) == [i \in DOMAIN q |-> [q[i] EXCEPT !.live = FALSE]]
Restarted(d) ==
    /\ fsUser' = [fsUser EXCEPT ![d] = auth[d]]
    /\ mainQ' = [mainQ EXCEPT ![d] = <<>>]
    /\ writeQ' = [writeQ EXCEPT ![d] =
                    [u \in Users \cup {Nobody} |-> Forget(writeQ[d][u])]]
    /\ reads' = [reads EXCEPT ![d] = [u \in Users |-> 0]]
    /\ requests' = [requests EXCEPT ![d] = {}]
    /\ view' = [view EXCEPT ![d] = "tabs"]
    /\ shown' = [shown EXCEPT ![d] = Shown(auth[d], local[d])]
    /\ stale' = [stale EXCEPT ![d] = @ \/ Updating(d)]
    /\ UNCHANGED <<account, doc, auth, cache, local, crossed>>

Crash(d) == Fault(d) /\ Restarted(d) /\ UNCHANGED taps

\* updateCurrentUserInFirestore, from the edit screen or from finishOnbarding.
\* Without a record nothing happens; with one and nobody signed in,
\* currentId() traps.
Update(d, op) ==
    /\ view[d] = op
    /\ local[d] # NoRecord
    /\ Tap(d)
    /\ IF auth[d] = Nobody
       THEN Restarted(d) /\ UNCHANGED faults
       ELSE /\ writeQ' = [writeQ EXCEPT ![d][fsUser[d]] = Append(@,
                    [op |-> op, doc |-> auth[d],
                     rec |-> Userobject(local[d], op), live |-> TRUE])]
            /\ stale' = [stale EXCEPT ![d] =
                    @ \/ Updating(d) \/ Downloading(d) \/ local[d].owner # auth[d]]
            /\ UNCHANGED <<auths, doc, cache, reads, local, mainQ, ui, faults, crossed>>

-----------------------------------------------------------------------------
(* What Auth and Firestore answer.                                          *)

\* Auth answers a request: the signed-in user changes at once, Firestore and
\* the app hear of it on the main queue, in this order.
SignedIn(d, r) ==
    /\ r.kind = "signIn" /\ account[r.user] # "unknown"
    /\ auth' = [auth EXCEPT ![d] = r.user]
    /\ mainQ' = [mainQ EXCEPT ![d] = @ \o
                 <<Credential(r.user),
                   CallbackOf("login", r.user, NoRecord, account[r.user] = "verified")>>]
    /\ crossed' = [crossed EXCEPT ![d] = ~(Residue(d) \subseteq {r.user})]
    /\ UNCHANGED <<account, faults>>

Registered(d, r) ==
    /\ r.kind = "register" /\ account[r.user] = "unknown"
    /\ auth' = [auth EXCEPT ![d] = r.user]
    /\ Post(d, Credential(r.user))
    /\ \/ /\ account' = [account EXCEPT ![r.user] = "mailed"]
          /\ UNCHANGED faults
       \/ /\ account' = [account EXCEPT ![r.user] = "unverified"]
          /\ Fault(d)
    /\ crossed' = [crossed EXCEPT ![d] = ~(Residue(d) \subseteq {r.user})]

Refused(d, r) == 
    /\ (r.kind = "signIn") = (account[r.user] = "unknown")
    /\ UNCHANGED <<account, auth, mainQ, crossed, faults>>

Lost(d) == Fault(d) /\ UNCHANGED <<account, auth, mainQ, crossed>>

AuthAnswers(d, r) ==
    /\ r \in requests[d]
    /\ requests' = [requests EXCEPT ![d] = @ \ {r}]
    /\ SignedIn(d, r) \/ Registered(d, r) \/ Refused(d, r) \/ Lost(d)
    /\ UNCHANGED <<fsUser, store, local, ui, taps, stale>>

\* Auth gives the account up on its own when its token is no longer valid.
Revoked(d) ==
    /\ auth[d] # Nobody
    /\ Fault(d)
    /\ auth' = [auth EXCEPT ![d] = Nobody]
    /\ Post(d, Credential(Nobody))
    /\ UNCHANGED <<account, fsUser, requests, store, local, ui, taps, history>>

\* getDocument is answered: by the server; or, offline, from the cache; or
\* not at all (a nil snapshot).  Pending writes show through.
Snapshot(u, s) ==
    CallbackOf("gotUser", u,
        IF s = "none" THEN NoRecord ELSE [owner |-> u, onBoard |-> s = "onboarded"],
        TRUE)
NilSnapshot(u) == CallbackOf("gotUser", u, NoRecord, FALSE)

ReadAnswered(d, u) ==
    /\ reads[d][u] > 0
    /\ reads' = [reads EXCEPT ![d][u] = @ - 1]
    /\ LET q == writeQ[d][fsUser[d]]
           cached == Overlay(cache[d][u], q, u)
       IN  \/ /\ Post(d, Snapshot(u, Overlay(doc[u], q, u)))
              /\ cache' = [cache EXCEPT ![d][u] = doc[u]]
              /\ UNCHANGED faults
           \/ /\ Fault(d)
              /\ \/ cached # "none" /\ Post(d, Snapshot(u, cached))
                 \/ Post(d, NilSnapshot(u))
              /\ UNCHANGED cache
    /\ stale' = [stale EXCEPT ![d] = @ \/ Updating(d)]
    /\ UNCHANGED <<auths, doc, writeQ, local, ui, taps, crossed>>

\* The head of the current account's queue is answered: applied, refused
\* because an update finds no document, or refused for another reason.
Answered(m, ok) == CallbackOf(m.op, Nobody, m.rec, ok)

Commit(d) ==
    LET u == fsUser[d]
        m == Head(writeQ[d][u])
        Pop == writeQ' = [writeQ EXCEPT ![d][u] = Tail(@)]
        Tell(ok) == IF m.live THEN Post(d, Answered(m, ok)) ELSE UNCHANGED mainQ
    IN  /\ writeQ[d][u] # <<>>
        /\ Pop
        /\ \/ /\ Applies(m, doc[m.doc])
              /\ doc' = [doc EXCEPT ![m.doc] = Applied(m, @)]
              /\ cache' = [cache EXCEPT ![d][m.doc] = doc'[m.doc]]
              /\ Tell(TRUE)
              /\ UNCHANGED <<faults, stale>>
           \/ /\ ~Applies(m, doc[m.doc])
              /\ Tell(FALSE)
              /\ UNCHANGED <<doc, cache, faults, stale>>
           \/ /\ Fault(d)
              /\ Tell(FALSE)
              /\ stale' = [stale EXCEPT ![d] = @ \/ m.op = "create"]
              /\ UNCHANGED <<doc, cache>>
        /\ UNCHANGED <<auths, reads, local, ui, taps, crossed>>

-----------------------------------------------------------------------------
(* The main queue runs the callbacks in order.                              *)

\* Firestore takes the new account: its writes wait in that account's queue.
RunCredential(d, c) ==
    /\ c.kind = "credential"
    /\ fsUser' = [fsUser EXCEPT ![d] = c.user]
    /\ UNCHANGED <<account, auth, requests, store, local, ui, stale>>

\* Mutants: the e-mail check is missing; the download is missing.
RunLoginUnverified(d, c) ==
    /\ c.kind = "login"
    /\ reads' = [reads EXCEPT ![d][c.user] = @ + 1]
    /\ UNCHANGED <<auths, doc, writeQ, cache, local, view, shown, stale>>
RunLoginOnly(d, c) ==
    /\ c.kind = "login"
    /\ UNCHANGED <<auths, store, local, ui, stale>>

\* The completion of signIn in loginUserWith, with the one of loginUser: a
\* verified user is downloaded and the login view that asked is dismissed
\* (another one may have been opened since); the view closes before the
\* download has been answered.
RunLogin(d, c) ==
    /\ c.kind = "login"
    /\ IF c.ok
       THEN /\ reads' = [reads EXCEPT ![d][c.user] = @ + 1]
            /\ \/ UNCHANGED view
               \/ view[d] = "login" /\ Look(d, "tabs")
       ELSE UNCHANGED <<reads, view>>
    /\ UNCHANGED <<auths, doc, writeQ, cache, local, shown, stale>>

\* Mutant: a nil snapshot is taken for a missing document.
RunGotUserUnguarded(d, c) ==
    /\ c.kind = "gotUser"
    /\ IF c.rec # NoRecord
       THEN local' = [local EXCEPT ![d] = c.rec] /\ UNCHANGED writeQ
       ELSE /\ local' = [local EXCEPT ![d] = FreshUser(c.user)]
            /\ writeQ' = [writeQ EXCEPT ![d][fsUser[d]] = Append(@,
                   [op |-> "create", doc |-> c.user, rec |-> NoRecord, live |-> FALSE])]
    /\ UNCHANGED <<auths, doc, cache, reads, ui, stale>>

\* The completion of getDocument in downloadUserFromFirestore.
RunGotUser(d, c) ==
    /\ c.kind = "gotUser"
    /\ IF ~c.ok THEN UNCHANGED <<local, writeQ>>
       ELSE IF c.rec # NoRecord
       THEN local' = [local EXCEPT ![d] = c.rec] /\ UNCHANGED writeQ
       ELSE /\ local' = [local EXCEPT ![d] = FreshUser(c.user)]
            /\ writeQ' = [writeQ EXCEPT ![d][fsUser[d]] = Append(@,
                   [op |-> "create", doc |-> c.user, rec |-> NoRecord, live |-> FALSE])]
    /\ stale' = [stale EXCEPT ![d] =
            @ \/ (c.ok /\ c.rec = NoRecord /\ fsUser[d] # c.user)]
    /\ UNCHANGED <<auths, doc, cache, reads, ui>>

\* Mutant: the record is saved before the error is looked at.
RunUpdatedAnyway(d, c) ==
    /\ c.kind \in UpdateOp
    /\ local' = [local EXCEPT ![d] = c.rec]
    /\ UNCHANGED <<auths, store, ui, stale>>

\* The completion of updateData in updateCurrentUserInFirestore, with the one
\* of finishOnbarding, which closes its view.
RunUpdated(d, c) ==
    /\ c.kind \in UpdateOp
    /\ IF c.ok THEN local' = [local EXCEPT ![d] = c.rec] ELSE UNCHANGED local
    /\ \/ UNCHANGED view
       \/ c.ok /\ c.kind = "finish" /\ view[d] = "finish" /\ Look(d, "tabs")
    /\ UNCHANGED <<auths, store, shown, stale>>

RunCallback(d) ==
    /\ mainQ[d] # <<>>
    /\ mainQ' = [mainQ EXCEPT ![d] = Tail(@)]
    /\ LET c == Head(mainQ[d])
       IN  RunCredential(d, c) \/ RunLogin(d, c) \/ RunGotUser(d, c) \/ RunUpdated(d, c)
    /\ UNCHANGED <<bounds, crossed>>

-----------------------------------------------------------------------------
UserStep(d) ==
    \/ ProfileAppears(d) \/ OpenLogin(d) \/ OpenEdit(d) \/ OpenFinish(d)
    \/ Cancel(d) \/ Back(d) \/ Resend(d) \/ LogOut(d)
    \/ \E kind \in {"signIn", "register"}, u \in Users : AskAuth(d, kind, u)
    \/ \E op \in UpdateOp : Update(d, op)

ServiceStep(d) ==
    \/ \E r \in Request : AuthAnswers(d, r)
    \/ \E u \in Users : ReadAnswered(d, u)
    \/ Commit(d) \/ Revoked(d)

Next ==
    \/ \E d \in Devices : UserStep(d) \/ ServiceStep(d) \/ RunCallback(d) \/ Crash(d)
    \/ \E u \in Users : VerifyEmail(u)

Spec == Init /\ [][Next]_vars

(* A phone's main thread keeps running and the services keep answering; the *)
(* user owes the app nothing.                                               *)
Fairness ==
    \A d \in Devices :
        /\ WF_vars(RunCallback(d))
        /\ WF_vars(Commit(d))
        /\ \A u \in Users : WF_vars(ReadAnswered(d, u))

FairSpec == Spec /\ Fairness

-----------------------------------------------------------------------------
(* Properties.                                                              *)

Verified(rec) == rec # NoRecord => account[rec.owner] = "verified"

\* Whatever record is stored, about to be stored by a callback, or copied
\* into a pending update belongs to a user whose e-mail was verified:
\* loginUserWith downloads verified users only, and a stale callback can
\* bring back another user's record but never an unverified user's.
RecordOwnerVerified ==
    \A d \in Devices :
        /\ Verified(local[d])
        /\ \A u \in Users : reads[d][u] > 0 => account[u] = "verified"
        /\ \A i \in DOMAIN mainQ[d] : Verified(mainQ[d][i].rec)
        /\ \A v \in Users \cup {Nobody} : \A i \in DOMAIN writeQ[d][v] :
              Verified(writeQ[d][v][i].rec)

\* "Return current user": currentUser() is the record of the user who is
\* signed in.
CurrentUserIsSignedIn ==
    \A d \in Devices :
        LET me == CurrentUser(auth[d], local[d])
        IN  me # NoRecord => me.owner = auth[d]

\* The only way to break CurrentUserIsSignedIn is to sign in while the phone
\* still holds another user's record, or a download or an update of it that
\* has not been answered: logging out first does not help in those cases.
RecordIsOfSignedInUser ==
    \A d \in Devices :
        LET me == CurrentUser(auth[d], local[d])
        IN  ~crossed[d] /\ me # NoRecord => me.owner = auth[d]

\* Nothing of this phone is under way.
Quiet(d) ==
    /\ mainQ[d] = <<>>
    /\ \A u \in Users : reads[d][u] = 0
    /\ \A v \in Users \cup {Nobody} : writeQ[d][v] = <<>>

\* With one phone, once everything has been answered, the record is what the
\* server has, however the answers were interleaved with logins, logouts and
\* sign-ins of other users: unless an update overlapped another update or a
\* download or copied another user's record, a completion was lost in a
\* restart, a new user was written to another account's queue, or a create
\* was refused.
RecordMatchesDocument ==
    \A d \in Devices :
        Quiet(d) /\ local[d] # NoRecord /\ ~stale[d] =>
            doc[local[d].owner] = IF local[d].onBoard THEN "onboarded" ELSE "fresh"

\* "there is no user, save new": writing a new user never undoes a completed
\* registration.
OnboardingKept ==
    [][\A u \in Users : doc[u] = "onboarded" => doc'[u] = "onboarded"]_vars

\* With one phone a completed registration is undone so only after one of the
\* steps that make the record stale: crossing users does not suffice.
OnboardingKeptUnlessStale ==
    [][\A u \in Users : doc[u] = "onboarded" /\ doc'[u] # "onboarded"
          => \E d \in Devices : stale[d]]_vars

\* loginUserWith reports success before the record is there.  As long as
\* nothing fails and the user stays signed in, the record does arrive.
LoginLoadsRecord ==
    \A d \in Devices : \A u \in Users :
        (\E i \in DOMAIN mainQ[d] :
            mainQ[d][i] = CallbackOf("login", u, NoRecord, TRUE))
        ~> (auth[d] # u \/ (local[d] # NoRecord /\ local[d].owner = u))

\* The owner of a record.
OwnerOf(rec) == IF rec = NoRecord THEN Nobody ELSE rec.owner

\* What the screens of every phone see of all this is what Accounts says: the
\* stored record only ever becomes that of a user of the residue, and the
\* residue only grows by a sign-in.
Phone(d) == INSTANCE Accounts WITH
    auth <- auth[d], record <- OwnerOf(local[d]), residue <- Residue(d), crossed <- crossed[d]
ImplementsAccounts ==
    /\ \A d \in Devices : Phone(d)!Init
    /\ [][\A d \in Devices : [Phone(d)!Next]_(Phone(d)!vars)]_vars

=============================================================================
