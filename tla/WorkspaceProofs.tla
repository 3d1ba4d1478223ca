-------------------------- MODULE WorkspaceProofs ---------------------------
(***************************************************************************)
(* Workspaces, on the server and in the tab.                               *)
(* First requests end up in one personal workspace, for any number of      *)
(* users, requests and teams, and any number of failures.  What the unique *)
(* key does between two transactions carries the argument: while one has   *)
(* written a row and not committed it, its user has no other row, written  *)
(* or committed.                                                           *)
(* The palette keeps to the selected workspace, for any operators, teams   *)
(* and memberships and any number of requests under way.  What makes it    *)
(* hold is that the workspace travels along: a feed is cached under the    *)
(* workspace it was asked for, and a pick is recorded with the workspace   *)
(* that was selected when its row was shown.                               *)
(***************************************************************************)
EXTENDS WorkspaceAccess, CommandPalette, TLAPS

ShortPc == {"new", "login", "refused", "broken"}
EarlyPc == {"new", "page", "selecting", "inserting", "resolving", "joining", "committing"}

VisitsAreRecords ==
  /\ visits = [v \in Visit |-> visits[v]]
  /\ \A v \in Visit :
       \/ visits[v].pc \in ShortPc
       \/ /\ visits[v].pc \in VisitPc \ ShortPc
          /\ visits[v] = [pc |-> visits[v].pc, user |-> visits[v].user,
                          wanted |-> visits[v].wanted, workspace |-> visits[v].workspace]

MembersArePairs == \A m \in members : m = <<m[1], m[2]>>

OneHomeEach == \A h, g \in homes : h.owner = g.owner => h = g

(* A home has the owner for a member, and the name of a request that has   *)
(* committed.                                                              *)
HomesAreJoined ==
  \A h \in homes : /\ h = HomeRow(h.id, h.owner) /\ <<h.id, h.owner>> \in members
                   /\ h.id \in Visit /\ visits[h.id].pc \notin EarlyPc

WritersAreAlone ==
  \A v \in Visit : WrittenBy(v) =>
    /\ HomesOf(visits[v].user) = {}
    /\ \A u \in Visit : WrittenBy(u) /\ visits[u].user = visits[v].user => u = v

(* What a request knows to be its workspace.                               *)
Located(v) ==
  LET home == HomeRow(visits[v].workspace, visits[v].user) IN
  /\ InTransaction(v) /\ visits[v].workspace # v => home \in homes
  /\ visits[v].pc = "listing" => home \in homes
  /\ visits[v].pc = "answered" =>
       /\ <<visits[v].workspace, visits[v].user>> \in members
       /\ visits[v].wanted = NoWorkspace => home \in homes

AccessInv ==
  /\ VisitsAreRecords /\ MembersArePairs
  /\ OneHomeEach /\ HomesAreJoined /\ WritersAreAlone
  /\ \A v \in Visit : Located(v)

LEMMA Rows ==
  ASSUME NEW id, NEW user, NEW h, h = HomeRow(id, user)
  PROVE  h.id = id /\ h.owner = user
BY DEF HomeRow

(* A request moves on, and may learn of a workspace.                       *)
LEMMA PcMoves ==
  ASSUME VisitsAreRecords, NEW v \in Visit, NEW pc \in VisitPc \ ShortPc,
         visits[v].pc \notin ShortPc, To(v, pc)
  PROVE  /\ VisitsAreRecords'
         /\ \A u \in Visit \ {v} : visits'[u] = visits[u]
         /\ visits'[v].pc = pc /\ visits'[v].user = visits[v].user
         /\ visits'[v].wanted = visits[v].wanted
         /\ visits'[v].workspace = visits[v].workspace
<1>1. visits[v] = [pc |-> visits[v].pc, user |-> visits[v].user,
                   wanted |-> visits[v].wanted, workspace |-> visits[v].workspace]
  BY DEF VisitsAreRecords
<1>2. visits' = [visits EXCEPT ![v].pc = pc]
  BY DEF To
<1>3. visits'[v] = [pc |-> pc, user |-> visits[v].user,
                    wanted |-> visits[v].wanted, workspace |-> visits[v].workspace]
  BY <1>1, <1>2 DEF VisitsAreRecords
<1>4. \A u \in Visit \ {v} : visits'[u] = visits[u]
  BY <1>2 DEF VisitsAreRecords
<1>5. visits' = [u \in Visit |-> visits'[u]]
  BY <1>2 DEF VisitsAreRecords
<1> QED BY <1>3, <1>4, <1>5 DEF VisitsAreRecords

LEMMA WorkspaceMoves ==
  ASSUME VisitsAreRecords, NEW v \in Visit, NEW pc \in VisitPc \ ShortPc, NEW w,
         visits[v].pc \notin ShortPc,
         visits' = [visits EXCEPT ![v].pc = pc, ![v].workspace = w]
  PROVE  /\ VisitsAreRecords'
         /\ \A u \in Visit \ {v} : visits'[u] = visits[u]
         /\ visits'[v].pc = pc /\ visits'[v].user = visits[v].user
         /\ visits'[v].wanted = visits[v].wanted
         /\ visits'[v].workspace = w
<1>1. visits[v] = [pc |-> visits[v].pc, user |-> visits[v].user,
                   wanted |-> visits[v].wanted, workspace |-> visits[v].workspace]
  BY DEF VisitsAreRecords
<1>3. visits'[v] = [pc |-> pc, user |-> visits[v].user,
                    wanted |-> visits[v].wanted, workspace |-> w]
  BY <1>1 DEF VisitsAreRecords
<1>4. \A u \in Visit \ {v} : visits'[u] = visits[u]
  BY DEF VisitsAreRecords
<1>5. visits' = [u \in Visit |-> visits'[u]]
  BY DEF VisitsAreRecords
<1> QED BY <1>3, <1>4, <1>5 DEF VisitsAreRecords

LEMMA VisitEnds ==
  ASSUME VisitsAreRecords, NEW v \in Visit, NEW pc \in ShortPc, Ends(v, pc)
  PROVE  /\ VisitsAreRecords' /\ visits'[v].pc = pc
         /\ \A u \in Visit \ {v} : visits'[u] = visits[u]
<1>1. visits' = [visits EXCEPT ![v] = [pc |-> pc]]
  BY DEF Ends
<1>2. visits'[v].pc = pc
  BY <1>1 DEF VisitsAreRecords
<1>3. \A u \in Visit \ {v} : visits'[u] = visits[u]
  BY <1>1 DEF VisitsAreRecords
<1>4. visits' = [u \in Visit |-> visits'[u]]
  BY <1>1 DEF VisitsAreRecords
<1> QED BY <1>2, <1>3, <1>4 DEF VisitsAreRecords

(* A step of one request that leaves the tables alone.                     *)
LEMMA OneVisit ==
  ASSUME AccessInv, NEW v \in Visit, UNCHANGED <<homes, members>>, VisitsAreRecords',
         \A u \in Visit \ {v} : visits'[u] = visits[u],
         visits'[v].pc \in EarlyPc => visits[v].pc \in EarlyPc,
         WrittenBy(v)' =>
           \/ WrittenBy(v) /\ visits'[v].user = visits[v].user
           \/ /\ HomesOf(visits'[v].user) = {}
              /\ \A u \in Visit \ {v} :
                   ~(WrittenBy(u) /\ visits[u].user = visits'[v].user),
         Located(v)'
  PROVE  AccessInv'
<1> USE DEF AccessInv
<1>1. OneHomeEach'
  BY DEF OneHomeEach
<1>2. HomesAreJoined'
  BY DEF HomesAreJoined
<1>3. WritersAreAlone'
  BY DEF WritersAreAlone, WrittenBy, InTransaction, HomesOf
<1>4. \A u \in Visit : Located(u)'
  BY DEF Located, InTransaction
<1> QED BY <1>1, <1>2, <1>3, <1>4 DEF MembersArePairs

(* A request that ends, or has not found a workspace yet.                  *)
LEMMA NowhereYet ==
  ASSUME AccessInv, NEW v \in Visit, UNCHANGED <<homes, members>>, VisitsAreRecords',
         \A u \in Visit \ {v} : visits'[u] = visits[u],
         visits'[v].pc \in EarlyPc => visits[v].pc \in EarlyPc,
         visits'[v].pc \notin {"joining", "committing", "listing", "answered"}
  PROVE  AccessInv'
BY OneVisit DEF Located, WrittenBy, InTransaction

LEMMA EnterStep ==
  ASSUME AccessInv, NEW v \in Visit, NEW user, NEW wanted, EnterConsole(v, user, wanted)
  PROVE  AccessInv'
<1> USE DEF AccessInv
<1>1. visits[v].pc = "new" /\ UNCHANGED <<homes, members>>
  BY DEF EnterConsole
<1>2. CASE user \in session
  <2>1. visits' = [visits EXCEPT ![v] =
          [pc |-> "page", user |-> user, wanted |-> wanted, workspace |-> NoWorkspace]]
    BY <1>2 DEF EnterConsole
  <2>2. visits'[v] = [pc |-> "page", user |-> user, wanted |-> wanted,
                      workspace |-> NoWorkspace]
    BY <2>1 DEF VisitsAreRecords
  <2>3. \A u \in Visit \ {v} : visits'[u] = visits[u]
    BY <2>1 DEF VisitsAreRecords
  <2>4. visits' = [u \in Visit |-> visits'[u]]
    BY <2>1 DEF VisitsAreRecords
  <2>5. VisitsAreRecords'
    BY <2>2, <2>3, <2>4 DEF VisitsAreRecords, VisitPc, ShortPc
  <2>6. visits'[v].pc = "page"
    BY <2>2
  <2> QED BY <1>1, <2>3, <2>5, <2>6, NowhereYet DEF EarlyPc
<1>3. CASE user \notin session
  <2>1. Ends(v, "login")
    BY <1>3 DEF EnterConsole
  <2> QED BY <1>1, <2>1, VisitEnds, NowhereYet DEF ShortPc, EarlyPc
<1> QED BY <1>2, <1>3

LEMMA CurrentUserStep ==
  ASSUME AccessInv, NEW v \in Visit, CurrentUser(v)
  PROVE  AccessInv'
<1> USE DEF AccessInv
<1>1. visits[v].pc = "page" /\ UNCHANGED <<homes, members>>
  BY DEF CurrentUser
<1>2. CASE visits[v].user \in session
  <2>1. To(v, "selecting")
    BY <1>2 DEF CurrentUser
  <2> QED BY <1>1, <2>1, PcMoves, NowhereYet DEF VisitPc, ShortPc, EarlyPc
<1>3. CASE visits[v].user \notin session
  <2>1. Ends(v, "refused")
    BY <1>3 DEF CurrentUser
  <2> QED BY <1>1, <2>1, VisitEnds, NowhereYet DEF ShortPc, EarlyPc
<1> QED BY <1>2, <1>3

(* The home of the user is there: the request joins it.                    *)
LEMMA FoundStep ==
  ASSUME AccessInv, NEW v \in Visit, visits[v].pc \in {"selecting", "resolving"},
         Found(v, "joining"), UNCHANGED <<homes, members>>
  PROVE  AccessInv'
<1> USE DEF AccessInv
<1>1. PICK h \in HomesOf(visits[v].user) :
        visits' = [visits EXCEPT ![v].pc = "joining", ![v].workspace = h.id]
  BY DEF Found
<1>2. /\ VisitsAreRecords'
      /\ \A u \in Visit \ {v} : visits'[u] = visits[u]
      /\ visits'[v].pc = "joining" /\ visits'[v].user = visits[v].user
      /\ visits'[v].workspace = h.id
  BY <1>1, WorkspaceMoves, ZenonT(60) DEF VisitPc, ShortPc
<1>3. h \in homes /\ h = HomeRow(h.id, visits[v].user) /\ h.id # v
  BY <1>1 DEF HomesOf, HomesAreJoined, EarlyPc
<1>4. Located(v)'
  BY <1>2, <1>3 DEF Located
<1>5. ~WrittenBy(v)'
  BY <1>2, <1>3 DEF WrittenBy
<1> QED BY <1>2, <1>4, <1>5, OneVisit DEF EarlyPc

LEMMA SelectStep ==
  ASSUME AccessInv, NEW v \in Visit, SelectHome(v)
  PROVE  AccessInv'
<1> USE DEF AccessInv
<1>1. visits[v].pc = "selecting" /\ UNCHANGED <<homes, members>>
  BY DEF SelectHome
<1>2. CASE HomesOf(visits[v].user) = {}
  <2>1. To(v, "inserting")
    BY <1>2 DEF SelectHome
  <2> QED BY <1>1, <2>1, PcMoves, NowhereYet DEF VisitPc, ShortPc, EarlyPc
<1>3. CASE HomesOf(visits[v].user) # {}
  <2>1. Found(v, "joining")
    BY <1>3 DEF SelectHome
  <2> QED BY <1>1, <2>1, FoundStep
<1> QED BY <1>2, <1>3

LEMMA InsertStep ==
  ASSUME AccessInv, NEW v \in Visit, InsertHome(v)
  PROVE  AccessInv'
<1> USE DEF AccessInv
<1>1. visits[v].pc = "inserting" /\ ~KeyLocked(v) /\ UNCHANGED <<homes, members>>
  BY DEF InsertHome
<1>2. CASE KeyTaken(v)
  <2>1. To(v, "resolving")
    BY <1>2 DEF InsertHome
  <2> QED BY <1>1, <2>1, PcMoves, NowhereYet DEF VisitPc, ShortPc, EarlyPc
<1>3. CASE ~KeyTaken(v)
  <2>1. visits' = [visits EXCEPT ![v].pc = "joining", ![v].workspace = v]
    BY <1>3 DEF InsertHome
  <2>2. /\ VisitsAreRecords'
        /\ \A u \in Visit \ {v} : visits'[u] = visits[u]
        /\ visits'[v].pc = "joining" /\ visits'[v].user = visits[v].user
        /\ visits'[v].workspace = v
    BY <1>1, <2>1, WorkspaceMoves, ZenonT(60) DEF VisitPc, ShortPc
  <2>3. HomesOf(visits'[v].user) = {}
    BY <1>3, <2>2 DEF KeyTaken
  <2>4. \A u \in Visit \ {v} : ~(WrittenBy(u) /\ visits[u].user = visits'[v].user)
    BY <1>1, <2>2 DEF KeyLocked
  <2>5. Located(v)'
    BY <2>2 DEF Located
  <2> QED BY <1>1, <2>2, <2>3, <2>4, <2>5, OneVisit DEF EarlyPc
<1> QED BY <1>2, <1>3

LEMMA MemberStep ==
  ASSUME AccessInv, NEW v \in Visit, InsertMember(v)
  PROVE  AccessInv'
<1> USE DEF AccessInv
<1>1. visits[v].pc = "joining" /\ To(v, "committing") /\ UNCHANGED <<homes, members>>
  BY DEF InsertMember
<1>2. /\ VisitsAreRecords'
      /\ \A u \in Visit \ {v} : visits'[u] = visits[u]
      /\ visits'[v].pc = "committing" /\ visits'[v].user = visits[v].user
      /\ visits'[v].workspace = visits[v].workspace
  BY <1>1, PcMoves DEF VisitPc, ShortPc
<1>3. Located(v)'
  BY <1>1, <1>2 DEF Located, InTransaction
<1>4. WrittenBy(v)' => WrittenBy(v)
  BY <1>1, <1>2 DEF WrittenBy, InTransaction
<1> QED BY <1>1, <1>2, <1>3, <1>4, OneVisit DEF EarlyPc

(* The rows of a transaction become visible together.                      *)
LEMMA CommitStep ==
  ASSUME AccessInv, NEW v \in Visit, Commit(v)
  PROVE  AccessInv'
<1> USE DEF AccessInv
<1> DEFINE row == HomeRow(v, visits[v].user)
<1>1. /\ visits[v].pc = "committing" /\ To(v, "listing")
      /\ homes' = IF WrittenBy(v) THEN homes \cup {row} ELSE homes
      /\ members' = members \cup {<<visits[v].workspace, visits[v].user>>}
  BY DEF Commit
<1>2. /\ VisitsAreRecords'
      /\ \A u \in Visit \ {v} : visits'[u] = visits[u]
      /\ visits'[v].pc = "listing" /\ visits'[v].user = visits[v].user
      /\ visits'[v].workspace = visits[v].workspace
  BY <1>1, PcMoves DEF VisitPc, ShortPc
<1>3. row.id = v /\ row.owner = visits[v].user
  BY Rows
<1>4. InTransaction(v) /\ ~InTransaction(v)' /\ MembersArePairs'
  BY <1>1, <1>2 DEF InTransaction, MembersArePairs
<1>5. CASE ~WrittenBy(v)
  <2>1. homes' = homes
    BY <1>1, <1>5
  <2>2. HomeRow(visits[v].workspace, visits[v].user) \in homes
    BY <1>4, <1>5 DEF WrittenBy, Located
  <2>3. OneHomeEach'
    BY <2>1 DEF OneHomeEach
  <2>4. HomesAreJoined'
    BY <1>1, <1>2, <2>1 DEF HomesAreJoined, EarlyPc
  <2>5. WritersAreAlone'
    BY <1>2, <1>4, <2>1 DEF WritersAreAlone, WrittenBy, InTransaction, HomesOf
  <2>6. \A u \in Visit : Located(u)'
    BY <1>1, <1>2, <1>4, <2>1, <2>2 DEF Located, InTransaction
  <2> QED BY <1>2, <1>4, <2>3, <2>4, <2>5, <2>6
<1>6. CASE WrittenBy(v)
  <2>1. homes' = homes \cup {row} /\ visits[v].workspace = v
    BY <1>1, <1>6 DEF WrittenBy
  <2>2. /\ HomesOf(visits[v].user) = {}
        /\ \A u \in Visit \ {v} : ~(WrittenBy(u) /\ visits[u].user = visits[v].user)
    BY <1>6 DEF WritersAreAlone
  <2>3. OneHomeEach'
    BY <1>3, <2>1, <2>2 DEF OneHomeEach, HomesOf
  <2>4. HomesAreJoined'
    <3>1. ASSUME NEW h \in homes
          PROVE  /\ h = HomeRow(h.id, h.owner) /\ <<h.id, h.owner>> \in members'
                 /\ h.id \in Visit /\ visits'[h.id].pc \notin EarlyPc
      BY <3>1, <1>1, <1>2 DEF HomesAreJoined, EarlyPc
    <3>2. row = HomeRow(row.id, row.owner) /\ <<row.id, row.owner>> \in members'
      BY <1>1, <1>3, <2>1
    <3>3. visits'[row.id].pc \notin EarlyPc
      BY <1>2, <1>3 DEF EarlyPc
    <3> HIDE DEF row
    <3> QED BY <1>3, <2>1, <3>1, <3>2, <3>3 DEF HomesAreJoined
  <2>5. WritersAreAlone'
    <3> SUFFICES ASSUME NEW u \in Visit, WrittenBy(u)'
                 PROVE  /\ HomesOf(visits[u].user)' = {}
                        /\ \A x \in Visit : WrittenBy(x)' /\ visits'[x].user = visits'[u].user
                             => x = u
      BY DEF WritersAreAlone
    <3>1. u # v /\ WrittenBy(u) /\ visits'[u] = visits[u]
      BY <1>2, <1>4 DEF WrittenBy, InTransaction
    <3>2. \A x \in Visit : WrittenBy(x)' => x # v /\ WrittenBy(x) /\ visits'[x] = visits[x]
      BY <1>2, <1>4 DEF WrittenBy, InTransaction
    <3>3. visits[u].user # visits[v].user
      BY <3>1, <2>2
    <3>4. HomesOf(visits[u].user)' = {}
      <4>1. HomesOf(visits[u].user) = {}
        BY <3>1 DEF WritersAreAlone
      <4> HIDE DEF row
      <4> QED BY <3>1, <3>3, <4>1, <1>3, <2>1 DEF HomesOf
    <3> QED BY <3>1, <3>2, <3>4 DEF WritersAreAlone
  <2>6. \A u \in Visit : Located(u)'
    BY <1>1, <1>2, <1>4, <2>1 DEF Located, InTransaction
  <2> QED BY <1>2, <1>4, <2>3, <2>4, <2>5, <2>6
<1> QED BY <1>5, <1>6

LEMMA BreakStep ==
  ASSUME AccessInv, NEW v \in Visit, Breaks(v)
  PROVE  AccessInv'
<1> USE DEF AccessInv
<1>1. Ends(v, "broken") /\ UNCHANGED <<homes, members>>
  BY DEF Breaks
<1> QED BY <1>1, VisitEnds, NowhereYet DEF ShortPc, EarlyPc

(* The chosen workspace is one of the memberships, of which the home is    *)
(* one by now.                                                             *)
LEMMA ListStep ==
  ASSUME AccessInv, NEW v \in Visit, ListForUser(v)
  PROVE  AccessInv'
<1> USE DEF AccessInv
<1>1. visits[v].pc = "listing" /\ UNCHANGED <<homes, members>>
  BY DEF ListForUser
<1>2. CASE ResolveWorkspace(v) = {}
  <2>1. Ends(v, "refused")
    BY <1>2 DEF ListForUser
  <2> QED BY <1>1, <2>1, VisitEnds, NowhereYet DEF ShortPc, EarlyPc
<1>3. CASE ResolveWorkspace(v) # {}
  <2>1. PICK w \in ResolveWorkspace(v) :
          visits' = [visits EXCEPT ![v].pc = "answered", ![v].workspace = w]
    BY <1>3 DEF ListForUser
  <2>2. /\ VisitsAreRecords'
        /\ \A u \in Visit \ {v} : visits'[u] = visits[u]
        /\ visits'[v].pc = "answered" /\ visits'[v].user = visits[v].user
        /\ visits'[v].wanted = visits[v].wanted /\ visits'[v].workspace = w
    BY <1>1, <2>1, WorkspaceMoves DEF VisitPc, ShortPc
  <2>3. HomeRow(visits[v].workspace, visits[v].user) \in homes
    BY <1>1 DEF Located
  <2>4. <<visits[v].workspace, visits[v].user>> \in members
    BY <2>3, Rows DEF HomesAreJoined
  <2>5. <<w, visits[v].user>> \in members
    <3>1. CASE w = visits[v].workspace
      BY <2>4, <3>1
    <3>2. CASE w # visits[v].workspace
      <4>1. w \in Listed(v)
        BY <2>1, <3>2 DEF ResolveWorkspace
      <4>2. w \in Memberships(visits[v].user)
        BY <3>2, <4>1 DEF Listed
      <4>3. PICK m \in members : m[2] = visits[v].user /\ m[1] = w
        BY <4>2 DEF Memberships
      <4> QED BY <4>3 DEF MembersArePairs
    <3> QED BY <3>1, <3>2
  <2>6. visits[v].wanted = NoWorkspace => w = visits[v].workspace
    BY <2>1 DEF ResolveWorkspace
  <2>7. Located(v)'
    BY <1>1, <2>2, <2>3, <2>5, <2>6 DEF Located, InTransaction
  <2>8. visits'[v].pc \notin EarlyPc /\ ~WrittenBy(v)'
    BY <2>2 DEF EarlyPc, WrittenBy, InTransaction
  <2> QED BY <1>1, <2>2, <2>7, <2>8, OneVisit
<1> QED BY <1>2, <1>3

(* The named parts together are inductive.                                 *)
THEOREM InvariantHolds == AccessSpec => []AccessInv
<1>1. AccessInit => AccessInv
  <2> SUFFICES ASSUME AccessInit PROVE AccessInv
    OBVIOUS
  <2>1. /\ visits = [v \in Visit |-> [pc |-> "new"]] /\ homes = {} /\ members = TeamMembers
    BY DEF AccessInit
  <2>2. \A v \in Visit : visits[v].pc = "new"
    BY <2>1
  <2>3. VisitsAreRecords
    BY <2>1, <2>2 DEF VisitsAreRecords, ShortPc
  <2>4. MembersArePairs
    BY <2>1, AccessAssumption DEF MembersArePairs
  <2>5. OneHomeEach /\ HomesAreJoined
    BY <2>1 DEF OneHomeEach, HomesAreJoined
  <2>6. WritersAreAlone /\ \A v \in Visit : Located(v)
    BY <2>2 DEF WritersAreAlone, WrittenBy, InTransaction, Located
  <2> QED BY <2>3, <2>4, <2>5, <2>6 DEF AccessInv
<1>2. AccessInv /\ [AccessNext]_accessVars => AccessInv'
  <2> SUFFICES ASSUME AccessInv, [AccessNext]_accessVars PROVE AccessInv'
    OBVIOUS
  <2>1. CASE UNCHANGED accessVars
    BY <2>1 DEF accessVars, AccessInv, VisitsAreRecords, MembersArePairs, OneHomeEach,
      HomesAreJoined, WritersAreAlone, WrittenBy, InTransaction, HomesOf, Located
  <2>2. ASSUME NEW user \in Account, SignIn(user) \/ SessionEnds(user) PROVE AccessInv'
    BY <2>2 DEF SignIn, SessionEnds, AccessInv, VisitsAreRecords, MembersArePairs,
      OneHomeEach, HomesAreJoined, WritersAreAlone, WrittenBy, InTransaction, HomesOf, Located
  <2>3. ASSUME NEW v \in Visit, NEW user \in Account,
               NEW wanted \in Team \cup Visit \cup {NoWorkspace}, EnterConsole(v, user, wanted)
        PROVE  AccessInv'
    BY <2>3, EnterStep
  <2>4. ASSUME NEW v \in Visit, CurrentUser(v) PROVE AccessInv'
    BY <2>4, CurrentUserStep
  <2>5. ASSUME NEW v \in Visit, SelectHome(v) PROVE AccessInv'
    BY <2>5, SelectStep
  <2>6. ASSUME NEW v \in Visit, InsertHome(v) PROVE AccessInv'
    BY <2>6, InsertStep
  <2>7. ASSUME NEW v \in Visit, SelectWinner(v) PROVE AccessInv'
    BY <2>7, FoundStep DEF SelectWinner
  <2>8. ASSUME NEW v \in Visit, InsertMember(v) PROVE AccessInv'
    BY <2>8, MemberStep
  <2>9. ASSUME NEW v \in Visit, Commit(v) PROVE AccessInv'
    BY <2>9, CommitStep
  <2>10. ASSUME NEW v \in Visit, Breaks(v) PROVE AccessInv'
    BY <2>10, BreakStep
  <2>11. ASSUME NEW v \in Visit, ListForUser(v) PROVE AccessInv'
    BY <2>11, ListStep
  <2> QED BY <2>1, <2>2, <2>3, <2>4, <2>5, <2>6, <2>7, <2>8, <2>9, <2>10, <2>11
       DEF AccessNext
<1> QED BY <1>1, <1>2, PTL DEF AccessSpec

(* A user never owns two personal workspaces, and every request that is    *)
(* answered acts in a workspace its user is a member of, whatever first    *)
(* requests come together (middleware.ts, app_provision_personal_workspace,*)
(* resolveWorkspace).                                                      *)
THEOREM MembersOnly == AccessSpec => []ActsWhereMember
<1>1. AccessInv => ActsWhereMember
  BY DEF AccessInv, ActsWhereMember, OneHomeEach, HomesAreJoined, Located
<1> QED BY <1>1, InvariantHolds, PTL

(* The rows name requests and users there are, and a request serves one.   *)
AccessTypes ==
  /\ session \subseteq Account
  /\ homes \subseteq {HomeRow(v, user) : v \in Visit, user \in Account}
  /\ members \subseteq (Team \cup Visit) \X Account
  /\ \A v \in Visit : visits[v].pc \notin ShortPc => visits[v].user \in Account

LEMMA AccessTypesStep ==
  ASSUME AccessInv, AccessInv', AccessTypes, [AccessNext]_accessVars
  PROVE  AccessTypes'
<1> USE DEF AccessTypes
<1>0. VisitsAreRecords
  BY DEF AccessInv
<1>1. CASE UNCHANGED accessVars
  BY <1>1 DEF accessVars
<1>2. ASSUME NEW user \in Account, SignIn(user) \/ SessionEnds(user) PROVE AccessTypes'
  BY <1>2 DEF SignIn, SessionEnds
<1>3. ASSUME NEW v \in Visit, NEW user \in Account, NEW wanted, EnterConsole(v, user, wanted)
      PROVE  AccessTypes'
  <2>1. UNCHANGED <<session, homes, members>> /\ \A u \in Visit \ {v} : visits'[u] = visits[u]
    BY <1>0, <1>3 DEF EnterConsole, Ends, VisitsAreRecords
  <2>2. visits'[v].pc = "login" \/ visits'[v].user = user
    BY <1>0, <1>3 DEF EnterConsole, Ends, VisitsAreRecords
  <2> QED BY <2>1, <2>2 DEF ShortPc
<1>4. ASSUME NEW v \in Visit, UNCHANGED <<session, homes, members>>, visits[v].pc \notin ShortPc,
             \/ \E pc \in ShortPc : Ends(v, pc)
             \/ \E pc \in VisitPc \ ShortPc : To(v, pc)
             \/ \E pc \in VisitPc \ ShortPc : \E w :
                  visits' = [visits EXCEPT ![v].pc = pc, ![v].workspace = w]
      PROVE  AccessTypes'
  <2> DEFINE others == \A u \in Visit \ {v} : visits'[u] = visits[u]
             own == visits'[v].pc \in ShortPc \/ visits'[v].user = visits[v].user
  <2>1. ASSUME NEW pc \in ShortPc, Ends(v, pc) PROVE others /\ own
    BY ONLY <1>0, <2>1, VisitEnds, v \in Visit
  <2>2. ASSUME NEW pc \in VisitPc \ ShortPc, To(v, pc) PROVE others /\ own
    BY ONLY <1>0, <1>4, <2>2, PcMoves, v \in Visit
  <2>3. ASSUME NEW pc \in VisitPc \ ShortPc, NEW w,
               visits' = [visits EXCEPT ![v].pc = pc, ![v].workspace = w]
        PROVE  others /\ own
    BY ONLY <1>0, <1>4, <2>3, WorkspaceMoves, v \in Visit
  <2>4. others /\ own
    BY ONLY <1>4, <2>1, <2>2, <2>3
  <2> QED BY <1>4, <2>4
<1>5. ASSUME NEW v \in Visit,
             \/ CurrentUser(v) \/ SelectHome(v) \/ InsertHome(v) \/ SelectWinner(v)
             \/ InsertMember(v) \/ Breaks(v) \/ ListForUser(v)
      PROVE  AccessTypes'
  <2>1. UNCHANGED <<session, homes, members>>
    BY <1>5 DEF CurrentUser, SelectHome, InsertHome, SelectWinner, InsertMember, Breaks, ListForUser
  <2>2. visits[v].pc \notin ShortPc
    BY <1>5 DEF CurrentUser, SelectHome, InsertHome, SelectWinner, InsertMember, Breaks,
         ListForUser, ShortPc, VisitPc
  <2>3. \/ \E pc \in ShortPc : Ends(v, pc)
        \/ \E pc \in VisitPc \ ShortPc : To(v, pc)
        \/ \E pc \in VisitPc \ ShortPc : \E w :
             visits' = [visits EXCEPT ![v].pc = pc, ![v].workspace = w]
    <3>1. {"broken", "refused"} \subseteq ShortPc
          /\ {"selecting", "inserting", "resolving", "joining", "committing", "answered"}
               \subseteq VisitPc \ ShortPc
      BY DEF ShortPc, VisitPc
    <3>2. CASE CurrentUser(v)
      BY <3>1, <3>2 DEF CurrentUser
    <3>3. CASE SelectHome(v) \/ InsertHome(v) \/ SelectWinner(v)
      BY <3>1, <3>3 DEF SelectHome, InsertHome, SelectWinner, Found
    <3>4. CASE InsertMember(v) \/ Breaks(v)
      BY <3>1, <3>4 DEF InsertMember, Breaks
    <3>5. CASE ListForUser(v)
      BY <3>1, <3>5 DEF ListForUser
    <3> QED BY <1>5, <3>2, <3>3, <3>4, <3>5
  <2> HIDE DEF AccessTypes
  <2> QED BY <1>4, <2>1, <2>2, <2>3
<1>6. ASSUME NEW v \in Visit, Commit(v) PROVE AccessTypes'
  <2>1. /\ visits[v].pc = "committing" /\ To(v, "listing") /\ UNCHANGED session
        /\ homes' = IF WrittenBy(v) THEN homes \cup {HomeRow(v, visits[v].user)} ELSE homes
        /\ members' = members \cup {<<visits[v].workspace, visits[v].user>>}
    BY <1>6 DEF Commit
  <2>2. visits[v].user \in Account /\ visits[v].pc \notin ShortPc /\ "listing" \in VisitPc \ ShortPc
    BY <2>1 DEF ShortPc, VisitPc
  <2>3. visits[v].workspace \in Visit
    <3>1. CASE visits[v].workspace = v
      BY <3>1
    <3>2. CASE visits[v].workspace # v
      <4>1. HomeRow(visits[v].workspace, visits[v].user) \in homes
        BY <2>1, <3>2 DEF AccessInv, Located, InTransaction
      <4> QED BY <4>1, Rows DEF AccessInv, HomesAreJoined
    <3> QED BY <3>1, <3>2
  <2>4. homes' \subseteq {HomeRow(u, user) : u \in Visit, user \in Account}
    BY <2>1, <2>2
  <2>5. members' \subseteq (Team \cup Visit) \X Account
    BY <2>1, <2>2, <2>3
  <2>6. visits'[v].user = visits[v].user /\ \A u \in Visit \ {v} : visits'[u] = visits[u]
    BY <1>0, <2>1, <2>2, PcMoves
  <2> QED BY <2>1, <2>2, <2>4, <2>5, <2>6
<1> QED BY <1>1, <1>2, <1>3, <1>5, <1>6 DEF AccessNext

(* AccessTypeOK: sessions, workspaces and members are of users there are,  *)
(* and every request is at one of its calls, for any users and teams.      *)
THEOREM AccessTypesHold == AccessSpec => []AccessTypeOK
<1>1. AccessInit => AccessTypes
  BY AccessAssumption DEF AccessInit, AccessTypes, ShortPc
<1>2. AccessInv /\ AccessInv' /\ AccessTypes /\ [AccessNext]_accessVars => AccessTypes'
  BY AccessTypesStep
<1>3. AccessInv /\ AccessTypes => AccessTypeOK
  BY DEF AccessInv, VisitsAreRecords, AccessTypes, AccessTypeOK, ShortPc, VisitPc
<1> QED BY <1>1, <1>2, <1>3, InvariantHolds, PTL DEF AccessSpec

-----------------------------------------------------------------------------
(* The command palette.                                                    *)

(* A request under way knows its workspace, and is cached under it.        *)
RequestsAreKeyed ==
  \A l \in loading : l.wanted # NoSelection /\ l.key = FeedKey(l.wanted)

(* A cached feed has rows of its key's workspace only.                     *)
FeedsAreScoped == \A f \in feeds : f.rows \subseteq {f.key}

(* A row that was picked is of the workspace it is told with.              *)
PicksAreScoped ==
  \A t \in telemetry : t.item # NoSelection => t.item = t.wanted

(* What was published is where its actor belongs, and where its row lives. *)
RecordsAreScoped ==
  \A s \in recorded :
    /\ s.workspace \in WorkspacesOf(s.actor)
    /\ s.item # NoSelection => s.item = s.workspace

PaletteInv == RequestsAreKeyed /\ FeedsAreScoped /\ PicksAreScoped /\ RecordsAreScoped

(* The server answers with workspaces of the caller, and with the one that *)
(* was asked for, if there was one.                                        *)
LEMMA HonoredIsAccessible ==
  ASSUME NEW user, NEW wanted, NEW w \in Honored(user, wanted)
  PROVE  /\ w \in WorkspacesOf(user)
         /\ wanted # NoSelection => w = wanted
BY DEF Honored, WorkspacesOf

(* While every feed is scoped, the rows listed are of the selection.       *)
LEMMA ListedAreSelected ==
  ASSUME FeedsAreScoped
  PROVE  ListedRows \subseteq {selected}
BY DEF FeedsAreScoped, ListedRows, FeedKey

(* One step of the palette keeps the invariant.                            *)
LEMMA PaletteStep ==
  ASSUME PaletteInv, [PaletteNext]_paletteVars
  PROVE  PaletteInv'
<1> USE DEF PaletteInv
<1>1. CASE UNCHANGED <<feeds, loading, telemetry, recorded>>
  BY <1>1 DEF RequestsAreKeyed, FeedsAreScoped, PicksAreScoped, RecordsAreScoped
<1>2. ASSUME NEW w \in Workspace, SelectWorkspace(w)
      PROVE  PaletteInv'
  <2>1. UNCHANGED <<feeds, loading, recorded>>
    BY <1>2 DEF SelectWorkspace
  <2>2. PicksAreScoped'
    BY <1>2 DEF SelectWorkspace, Recording, PicksAreScoped
  <2> QED BY <2>1, <2>2 DEF RequestsAreKeyed, FeedsAreScoped, RecordsAreScoped
<1>3. CASE ReloadTab
  BY <1>3 DEF ReloadTab, RequestsAreKeyed, FeedsAreScoped, PicksAreScoped, RecordsAreScoped
<1>4. CASE FetchFeed
  <2>1. UNCHANGED <<feeds, telemetry, recorded>>
    BY <1>4 DEF FetchFeed
  <2>2. RequestsAreKeyed'
    BY <1>4 DEF FetchFeed, RequestsAreKeyed, FeedKey
  <2> QED BY <2>1, <2>2 DEF FeedsAreScoped, PicksAreScoped, RecordsAreScoped
<1>5. ASSUME NEW l \in loading, FeedArrives(l)
      PROVE  PaletteInv'
  <2>1. UNCHANGED <<telemetry, recorded>> /\ loading' \subseteq loading
    BY <1>5 DEF FeedArrives
  <2>2. PICK rows \in {{}, FeedRows(l)} :
          feeds' = {f \in feeds : f.key # l.key} \cup {[key |-> l.key, rows |-> rows]}
    BY <1>5 DEF FeedArrives
  <2>3. rows \subseteq {l.key}
    BY HonoredIsAccessible DEF RequestsAreKeyed, FeedKey, FeedRows
  <2>4. FeedsAreScoped'
    BY <2>2, <2>3 DEF FeedsAreScoped
  <2> QED BY <2>1, <2>4 DEF RequestsAreKeyed, PicksAreScoped, RecordsAreScoped
<1>6. ASSUME NEW l \in loading, FeedFails(l)
      PROVE  PaletteInv'
  BY <1>6 DEF FeedFails, RequestsAreKeyed, FeedsAreScoped, PicksAreScoped, RecordsAreScoped
<1>7. ASSUME NEW f \in feeds, CollectFeed(f)
      PROVE  PaletteInv'
  BY <1>7 DEF CollectFeed, RequestsAreKeyed, FeedsAreScoped, PicksAreScoped, RecordsAreScoped
<1>8. ASSUME NEW item \in Workspace \cup {NoSelection}, Pick(item)
      PROVE  PaletteInv'
  <2>1. UNCHANGED <<feeds, loading, recorded>>
    BY <1>8 DEF Pick
  <2>2. item # NoSelection => item = selected
    BY <1>8, ListedAreSelected DEF Pick
  <2>3. PicksAreScoped'
    BY <1>8, <2>2 DEF Pick, Recording, PicksAreScoped
  <2> QED BY <2>1, <2>3 DEF RequestsAreKeyed, FeedsAreScoped, RecordsAreScoped
<1>9. ASSUME NEW t \in telemetry, RecordPick(t)
      PROVE  PaletteInv'
  <2>1. UNCHANGED <<feeds, loading>> /\ telemetry' \subseteq telemetry
    BY <1>9 DEF RecordPick
  <2>2. ASSUME NEW w \in Honored(t.user, t.wanted)
        PROVE  /\ w \in WorkspacesOf(t.user)
               /\ t.item # NoSelection => t.item = w
    BY <2>2, HonoredIsAccessible DEF PicksAreScoped
  <2>3. RecordsAreScoped'
    BY <1>9, <2>2 DEF RecordPick, RecordsAreScoped
  <2> QED BY <2>1, <2>3 DEF RequestsAreKeyed, FeedsAreScoped, PicksAreScoped
<1>10. ASSUME NEW t \in telemetry, LosePick(t)
       PROVE  PaletteInv'
  BY <1>10 DEF LosePick, RequestsAreKeyed, FeedsAreScoped, PicksAreScoped, RecordsAreScoped
<1>11. CASE \/ RenderShell \/ SeedSelection \/ LeaveConsole \/ TogglePalette
            \/ (\E user \in Operator \cup {Visitor} : SessionBecomes(user)) \/ UNCHANGED paletteVars
  BY <1>1, <1>11 DEF RenderShell, SeedSelection, LeaveConsole, TogglePalette, SessionBecomes,
                     paletteVars
<1> QED BY <1>2, <1>3, <1>4, <1>5, <1>6, <1>7, <1>8, <1>9, <1>10, <1>11 DEF PaletteNext

(* Whenever answers arrive and whoever signs in after whom, the palette    *)
(* lists, and records, what the selected workspace allows.                 *)
THEOREM PaletteIsScoped == PaletteSpec => []PaletteKeepsScope
<1>1. PaletteInit => PaletteInv
  BY DEF PaletteInit, PaletteInv, RequestsAreKeyed, FeedsAreScoped, PicksAreScoped,
         RecordsAreScoped
<1>2. PaletteInv /\ [PaletteNext]_paletteVars => PaletteInv'
  BY PaletteStep
<1>3. PaletteInv => PaletteKeepsScope
  BY ListedAreSelected DEF PaletteInv, RecordsAreScoped, PaletteKeepsScope
<1> QED BY <1>1, <1>2, <1>3, PTL DEF PaletteSpec

(* Whoever asks for a feed is an operator or nobody, and is answered with  *)
(* rows of workspaces there are.                                           *)
PaletteTypes ==
  /\ PaletteTypeOK
  /\ \A l \in loading : l.user \in Operator \cup {Visitor}

LEMMA SomeWorkspaces ==
  ASSUME NEW user \in Operator \cup {Visitor}
  PROVE  /\ WorkspacesOf(user) \subseteq Workspace
         /\ \A wanted : Honored(user, wanted) \subseteq Workspace
<1>1. WorkspacesOf(user) \subseteq Workspace
  BY DEF WorkspacesOf, Workspace
<1>2. \A wanted : Honored(user, wanted) \subseteq Workspace
  BY <1>1 DEF Honored, Workspace
<1> QED BY <1>1, <1>2

LEMMA PaletteTypesStep ==
  ASSUME PaletteTypes, [PaletteNext]_paletteVars
  PROVE  PaletteTypes'
<1> USE DEF PaletteTypes, PaletteTypeOK
<1>0. MaxPicks \in Nat
  BY PaletteAssumption
<1>1. CASE UNCHANGED paletteVars
  BY <1>1 DEF paletteVars
<1>2. CASE RenderShell \/ LeaveConsole \/ ReloadTab \/ TogglePalette
  BY <1>2 DEF RenderShell, LeaveConsole, ReloadTab, TogglePalette
<1>3. CASE SeedSelection
  <2>1. shell \in Operator /\ selected' = EffectiveId
    BY <1>3 DEF SeedSelection
  <2>2. EffectiveId \in Workspace \cup {NoSelection}
    BY <2>1 DEF EffectiveId, Workspace
  <2> QED BY <1>3, <2>1, <2>2 DEF SeedSelection
<1>4. ASSUME NEW w \in Workspace, SelectWorkspace(w) PROVE PaletteTypes'
  BY <1>0, <1>4 DEF SelectWorkspace, Recording
<1>5. ASSUME NEW user \in Operator \cup {Visitor}, SessionBecomes(user) PROVE PaletteTypes'
  BY <1>5 DEF SessionBecomes
<1>6. CASE FetchFeed
  BY <1>6 DEF FetchFeed
<1>7. ASSUME NEW l \in loading, FeedArrives(l) \/ FeedFails(l) PROVE PaletteTypes'
  <2>1. loading' \subseteq loading /\ UNCHANGED <<signedIn, shell, selected, open, picks>>
    BY <1>7 DEF FeedArrives, FeedFails
  <2>2. FeedRows(l) \subseteq Workspace
    BY SomeWorkspaces DEF FeedRows
  <2>3. \A f \in feeds' : f.rows \subseteq Workspace
    BY <1>7, <2>2 DEF FeedArrives, FeedFails
  <2> QED BY <2>1, <2>3
<1>8. ASSUME NEW f \in feeds, CollectFeed(f) PROVE PaletteTypes'
  BY <1>8 DEF CollectFeed
<1>9. ASSUME NEW item \in Workspace \cup {NoSelection}, Pick(item) PROVE PaletteTypes'
  <2>1. /\ picks < MaxPicks /\ picks' = picks + 1 /\ open' = FALSE
        /\ UNCHANGED <<signedIn, shell, selected, feeds, loading>>
    BY <1>9 DEF Pick, Recording
  <2>2. picks' \in 0 .. MaxPicks
    BY <1>0, <2>1
  <2> QED BY <2>1, <2>2
<1>10. ASSUME NEW t \in telemetry, RecordPick(t) \/ LosePick(t) PROVE PaletteTypes'
  BY <1>10 DEF RecordPick, LosePick
<1> QED BY <1>1, <1>2, <1>3, <1>4, <1>5, <1>6, <1>7, <1>8, <1>9, <1>10 DEF PaletteNext

(* PaletteTypeOK: the tab selects, and the server answers with, workspaces *)
(* there are, whoever signs in after whom and whenever answers arrive.     *)
THEOREM PaletteTypesHold == PaletteSpec => []PaletteTypeOK
<1>1. PaletteInit => PaletteTypes
  <2> SUFFICES ASSUME PaletteInit PROVE PaletteTypes
    OBVIOUS
  <2>1. 0 \in 0 .. MaxPicks
    BY PaletteAssumption
  <2> QED BY <2>1 DEF PaletteInit, PaletteTypes, PaletteTypeOK
<1>2. PaletteTypes /\ [PaletteNext]_paletteVars => PaletteTypes'
  BY PaletteTypesStep
<1>3. PaletteTypes => PaletteTypeOK
  BY DEF PaletteTypes
<1> QED BY <1>1, <1>2, <1>3, PTL DEF PaletteSpec
=============================================================================
