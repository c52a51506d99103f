----------------------------- MODULE AccessProofs -----------------------------
(***************************************************************************)
(* Theorems about who may reach what, and what a student's code finds when *)
(* it is run, checked by TLAPS for any numbers of users, students,         *)
(* classes, entries, templates, pages and requests.                        *)
(*                                                                         *)
(* CourseAccess: the roster keeps its promises after any sequence of       *)
(* requests of which no two overlap, and what is listed can be opened.     *)
(* NotebookEntry: an entry has one type, and what is published in it can   *)
(* be started, unless one request wrote while another was under way.       *)
(* AuthSession: a token that was revoked or used up stays void, and a page *)
(* that restores nothing during a login or a logout has one user's session.*)
(* KernelSession: code runs alone in its kernel, in its record's           *)
(* environment and after the hidden cells.                                 *)
(***************************************************************************)
EXTENDS CourseAccess, NotebookEntry, AuthSession, KernelSession, FiniteSetTheorems, TLAPS

CourseSpec == CourseInit /\ [][CourseNext]_courseVars

-----------------------------------------------------------------------------
(* CourseAccess                                                             *)

CourseType == [status : {"draft", "published", "archived"},
               visibility : {"class", "whitelist", "private", "public"}]
Standing == {None} \cup [status : {"enrolled", "dropped"}, origin : {"class", "manual", "self"}]
Membership == [Classes \X Pupils -> {"none", "active", "removed"}]
Modes == {"all_enrolled", "selected_classes", "whitelist_only"}
RowType == [insert : BOOLEAN, status : {"keep", "enrolled", "dropped"},
            origin : {"keep", "class", "manual", "self"}]
PlanType == [what : {"roster"}, joins : SUBSET (Classes \X Pupils), leaves : SUBSET (Classes \X Pupils),
             drop : SUBSET Classes, add : SUBSET Classes, rows : [Pupils -> RowType],
             says : {"none", "in", "out"}]
Words == [Pupils -> {"none", "in", "out"}]

TaskType == [status : {"draft", "published"}, mode : Modes, classes : SUBSET Classes,
             include : SUBSET Pupils, exclude : SUBSET Pupils]

RosterType == /\ course \in CourseType /\ member \in Membership /\ links \subseteq Classes
              /\ enrolment \in [Pupils -> Standing] /\ task \in TaskType
              /\ office \in [Offices -> {Vacant} \cup PlanType] /\ word \in Words
              /\ crossed \in BOOLEAN

\* A request that inserts an enrolment sets its columns; one that does not found one.
RowReal(s, w) == \/ w = Keep
                 \/ w.insert /\ w.status # "keep" /\ w.origin # "keep"
                 \/ ~w.insert /\ enrolment[s] # None
RowsReal == \A o \in Offices : office[o] # Vacant => \A s \in Pupils : RowReal(s, office[o].rows[s])

\* What RosterKept says of one student, and that nobody who was taken out by
\* decision has an enrolment that the classes look after.
Kept(e, in, said) ==
  /\ e.origin = "class" => (e.status = "enrolled" <=> in)
  /\ in => e # None
  /\ said = "in" /\ e.origin # "class" => e.status = "enrolled"
  /\ said = "out" => e.status = "dropped" /\ e.origin # "class"
  /\ said = "none" => e.origin \in {"none", "class"}

\* What a request that is under way will leave, if nothing changes before it.
MemberAfter(p) == [x \in Classes \X Pupils |-> IF x \in p.joins THEN "active"
                     ELSE IF x \in p.leaves THEN "removed" ELSE member[x]]
LinksAfter(p) == (links \ p.drop) \cup p.add
WordAfter(p, s) == IF p.says # "none" /\ p.rows[s] # Keep THEN p.says ELSE word[s]
Prepared(p) == \A s \in Pupils :
  Kept(Written(s, p.rows[s]), InClass(MemberAfter(p), LinksAfter(p), s), WordAfter(p, s))

AllKept == \A s \in Pupils : Kept(enrolment[s], InClass(member, links, s), word[s])
OneAtATime == \A o, p \in Offices : office[o] # Vacant /\ office[p] # Vacant => o = p
AllPrepared == \A o \in Offices : office[o] # Vacant => Prepared(office[o])

RosterInv == RosterType /\ RowsReal /\ (~crossed => AllKept /\ OneAtATime /\ AllPrepared)

\* A row that is written is what it was made to become.
LEMMA BecomingRow ==
  ASSUME RosterType, NEW s \in Pupils, NEW status \in {"enrolled", "dropped"},
         NEW origin \in {"class", "manual", "self"}
  PROVE  LET w == Becoming(s, status, origin) IN
         /\ w \in RowType /\ RowReal(s, w) /\ Written(s, w) = [status |-> status, origin |-> origin]
         /\ w = Keep => enrolment[s] = [status |-> status, origin |-> origin]
<1> DEFINE w == Becoming(s, status, origin)
<1>1. enrolment[s] \in Standing
  BY DEF RosterType
<1>2. w = [insert |-> enrolment[s] = None, status |-> Column(status, enrolment[s].status),
           origin |-> Column(origin, enrolment[s].origin)]
  BY DEF Becoming
<1>3. w \in RowType
  BY <1>2 DEF RowType, Column
<1>4. /\ w.insert = (enrolment[s] = None)
      /\ w.status = Column(status, enrolment[s].status) /\ w.origin = Column(origin, enrolment[s].origin)
  BY <1>2
<1> HIDE DEF w
<1>5. CASE enrolment[s] = None
  <2>1. w.insert /\ w.status = status /\ w.origin = origin
    <3>1. w.insert
      BY <1>4, <1>5, Zenon
    <3>2. enrolment[s].status = "none" /\ enrolment[s].origin = "none"
      BY <1>5 DEF None
    <3>3. w.status = status /\ w.origin = origin
      BY <1>4, <3>2 DEF Column
    <3>4. QED
      BY <3>1, <3>3
  <2>2. w # Keep
    BY <2>1 DEF Keep
  <2>3. Written(s, w) = [status |-> status, origin |-> origin]
    BY <2>1 DEF Written
  <2>4. RowReal(s, w)
    BY <2>1 DEF RowReal
  <2>5. QED
    BY <1>3, <2>2, <2>3, <2>4 DEF w
<1>6. CASE enrolment[s] # None
  <2>1. enrolment[s] \in [status : {"enrolled", "dropped"}, origin : {"class", "manual", "self"}]
    BY <1>1, <1>6 DEF Standing
  <2>2. Written(s, w) = [status |-> status, origin |-> origin]
    BY <1>4, <2>1 DEF Written, Column
  <2>3. ASSUME w = Keep PROVE enrolment[s] = [status |-> status, origin |-> origin]
    <3>1. w.status = "keep" /\ w.origin = "keep"
      BY <2>3 DEF Keep
    <3>2. enrolment[s].status = status /\ enrolment[s].origin = origin
      BY <1>4, <3>1 DEF Column
    <3>3. QED
      BY <2>1, <3>2
  <2>4. RowReal(s, w)
    BY <1>4, <1>6 DEF RowReal
  <2>5. QED
    BY <1>3, <2>2, <2>3, <2>4 DEF w
<1>7. QED
  BY <1>5, <1>6

LEMMA KeepRow ==
  ASSUME RosterType, NEW s \in Pupils
  PROVE  Keep \in RowType /\ RowReal(s, Keep) /\ Written(s, Keep) = enrolment[s]
BY DEF RosterType, Standing, None, Keep, RowType, RowReal, Written

LEMMA BeginStep ==
  ASSUME RosterInv, NEW o \in Offices, NEW p \in PlanType, Begin(o, p),
         \A s \in Pupils : RowReal(s, p.rows[s]),
         AllKept => Prepared(p)
  PROVE  RosterInv'
<1>1. /\ office[o] = Vacant /\ office' = [office EXCEPT ![o] = p]
      /\ crossed' = (crossed \/ \E other \in Offices : office[other] # Vacant)
      /\ UNCHANGED <<course, member, links, enrolment, white, task, word>>
      /\ office \in [Offices -> {Vacant} \cup PlanType]
  BY DEF Begin, RosterInv, RosterType
<1>2. office'[o] = p /\ \A q \in Offices : q # o => office'[q] = office[q]
  BY <1>1
<1>3. RosterType'
  BY <1>1 DEF RosterInv, RosterType
<1>4. RowsReal'
  BY <1>1, <1>2 DEF RosterInv, RowsReal, RowReal
<1>5. ASSUME ~crossed' PROVE AllKept' /\ OneAtATime' /\ AllPrepared'
  <2>1. ~crossed /\ AllKept /\ \A q \in Offices : office[q] = Vacant
    BY <1>1, <1>5 DEF RosterInv, RosterType
  <2>2. Prepared(p)' /\ AllKept'
    BY <1>1, <2>1 DEF AllKept, Prepared, Written, MemberAfter, LinksAfter, WordAfter, InClass
  <2>3. QED
    BY <1>1, <1>2, <2>1, <2>2 DEF OneAtATime, AllPrepared
<1>6. QED
  BY <1>3, <1>4, <1>5 DEF RosterInv

\* A decision on one student: in or out, and never as the classes would have it.
LEMMA OneStep ==
  ASSUME RosterInv, NEW o \in Offices, NEW s \in Pupils, NEW origin \in {"manual", "self"},
         NEW says \in {"in", "out"},
         One(o, s, Becoming(s, IF says = "in" THEN "enrolled" ELSE "dropped", origin), says)
  PROVE  RosterInv'
<1> DEFINE status == IF says = "in" THEN "enrolled" ELSE "dropped"
           w == Becoming(s, status, origin)
           p == [Same EXCEPT !.rows[s] = w, !.says = says]
<1>1. RosterType
  BY DEF RosterInv
<1>2. /\ w \in RowType /\ RowReal(s, w) /\ Written(s, w) = [status |-> status, origin |-> origin]
      /\ w = Keep => enrolment[s] = [status |-> status, origin |-> origin]
  BY <1>1, BecomingRow
<1>3. Begin(o, p)
  BY DEF One
<1> HIDE DEF w
<1>4. /\ p \in PlanType /\ p.joins = {} /\ p.leaves = {} /\ p.drop = {} /\ p.add = {} /\ p.says = says
      /\ p.rows[s] = w /\ \A t \in Pupils : t # s => p.rows[t] = Keep
  BY <1>1, <1>2, KeepRow DEF Same, PlanType
<1> HIDE DEF p
<1>5. \A t \in Pupils : RowReal(t, p.rows[t])
  BY <1>1, <1>2, <1>4, KeepRow
<1>6. ASSUME AllKept PROVE Prepared(p)
  <2>1. SUFFICES ASSUME NEW t \in Pupils
                 PROVE  Kept(Written(t, p.rows[t]), InClass(MemberAfter(p), LinksAfter(p), t), WordAfter(p, t))
    BY DEF Prepared
  <2>2. InClass(MemberAfter(p), LinksAfter(p), t) <=> InClass(member, links, t)
    BY <1>1, <1>4 DEF InClass, MemberAfter, LinksAfter, RosterType
  <2>3. Kept(enrolment[t], InClass(member, links, t), word[t])
    BY <1>6 DEF AllKept
  <2>4. CASE t # s
    <3>1. Written(t, p.rows[t]) = enrolment[t] /\ WordAfter(p, t) = word[t]
      BY <1>1, <1>4, <2>4, KeepRow DEF WordAfter
    <3>2. QED
      BY <2>2, <2>3, <3>1 DEF Kept
  <2>5. CASE t = s /\ w = Keep
    <3>1. Written(t, p.rows[t]) = enrolment[t] /\ WordAfter(p, t) = word[t]
      BY <1>2, <1>4, <2>5 DEF WordAfter
    <3>2. QED
      BY <2>2, <2>3, <3>1 DEF Kept
  <2>6. CASE t = s /\ w # Keep
    <3>1. Written(t, p.rows[t]) = [status |-> status, origin |-> origin] /\ WordAfter(p, t) = says
      BY <1>2, <1>4, <2>6 DEF WordAfter
    <3>2. QED
      BY <3>1 DEF Kept, None
  <2>7. QED
    BY <2>4, <2>5, <2>6
<1>7. QED
  BY <1>3, <1>4, <1>5, <1>6, BeginStep

\* A synchronisation gives each student what the classes will have.
LEMMA SyncedKeeps ==
  ASSUME RosterType, AllKept, NEW m \in Membership, NEW l \in SUBSET Classes, NEW s \in Pupils
  PROVE  Kept(Written(s, Synced(m, l)[s]), InClass(m, l, s), word[s])
<1>1. enrolment[s] \in Standing /\ Kept(enrolment[s], InClass(member, links, s), word[s])
      /\ word[s] \in {"none", "in", "out"}
  BY DEF RosterType, AllKept, Words
<1>2. CASE InClass(m, l, s) /\ enrolment[s].origin \in {"none", "class"}
  <2>1. Written(s, Synced(m, l)[s]) = [status |-> "enrolled", origin |-> "class"]
    BY <1>2, BecomingRow DEF Synced
  <2>2. word[s] # "out"
    BY <1>1, <1>2 DEF Kept, Standing, None
  <2>3. QED
    BY <1>1, <1>2, <2>1, <2>2 DEF Kept, None
<1>3. CASE ~InClass(m, l, s) /\ enrolment[s].origin = "class"
  <2>1. Written(s, Synced(m, l)[s]) = [status |-> "dropped", origin |-> "class"]
    BY <1>3, BecomingRow DEF Synced
  <2>2. word[s] # "out"
    BY <1>1, <1>3 DEF Kept
  <2>3. QED
    BY <1>1, <1>3, <2>1, <2>2 DEF Kept, None
<1>4. CASE \/ InClass(m, l, s) /\ enrolment[s].origin \notin {"none", "class"}
           \/ ~InClass(m, l, s) /\ enrolment[s].origin # "class"
  <2>1. Synced(m, l)[s] = Keep
    BY <1>4 DEF Synced
  <2>2. Written(s, Synced(m, l)[s]) = enrolment[s]
    BY <2>1, KeepRow
  <2>3. QED
    BY <1>1, <1>4, <2>2 DEF Kept, Standing, None
<1>5. QED
  BY <1>2, <1>3, <1>4

LEMMA SyncedRows ==
  ASSUME RosterType, NEW m, NEW l
  PROVE  Synced(m, l) \in [Pupils -> RowType] /\ \A s \in Pupils : RowReal(s, Synced(m, l)[s])
<1>1. ASSUME NEW s \in Pupils PROVE Synced(m, l)[s] \in RowType /\ RowReal(s, Synced(m, l)[s])
  BY BecomingRow, KeepRow DEF Synced
<1>2. QED
  BY <1>1 DEF Synced

\* A request of a class: memberships or links, and the synchronisation they need.
LEMMA ClassStep ==
  ASSUME RosterInv, NEW o \in Offices, NEW p \in PlanType, Begin(o, p), p.says = "none",
         \/ p.rows = Synced(MemberAfter(p), LinksAfter(p))
         \/ /\ p.rows = [s \in Pupils |-> Keep]
            /\ \A s \in Pupils : InClass(MemberAfter(p), LinksAfter(p), s) <=> InClass(member, links, s)
  PROVE  RosterInv'
<1>1. RosterType
  BY DEF RosterInv
<1>2. \A s \in Pupils : WordAfter(p, s) = word[s]
  BY DEF WordAfter
<1>3. MemberAfter(p) \in Membership /\ LinksAfter(p) \in SUBSET Classes
  BY <1>1 DEF RosterType, MemberAfter, LinksAfter, Membership, PlanType
<1>4. CASE p.rows = Synced(MemberAfter(p), LinksAfter(p))
  <2>1. \A s \in Pupils : RowReal(s, p.rows[s])
    BY <1>1, <1>4, SyncedRows
  <2>2. AllKept => Prepared(p)
    BY <1>1, <1>2, <1>3, <1>4, SyncedKeeps DEF Prepared
  <2>3. QED
    BY <2>1, <2>2, BeginStep
<1>5. CASE /\ p.rows = [s \in Pupils |-> Keep]
           /\ \A s \in Pupils : InClass(MemberAfter(p), LinksAfter(p), s) <=> InClass(member, links, s)
  <2>1. \A s \in Pupils : p.rows[s] = Keep /\ RowReal(s, p.rows[s]) /\ Written(s, p.rows[s]) = enrolment[s]
    BY <1>1, <1>5, KeepRow
  <2>2. ASSUME AllKept PROVE Prepared(p)
    <3>1. SUFFICES ASSUME NEW s \in Pupils
                   PROVE  Kept(Written(s, p.rows[s]), InClass(MemberAfter(p), LinksAfter(p), s), WordAfter(p, s))
      BY DEF Prepared
    <3>2. Kept(enrolment[s], InClass(member, links, s), word[s])
      BY <2>2 DEF AllKept
    <3>3. InClass(MemberAfter(p), LinksAfter(p), s) <=> InClass(member, links, s)
      BY <1>5
    <3>4. QED
      BY <1>2, <2>1, <3>2, <3>3 DEF Kept
  <2>3. QED
    BY <2>1, <2>2, BeginStep
<1>6. QED
  BY <1>4, <1>5

LEMMA RowsOfKeep == ASSUME RosterType PROVE [s \in Pupils |-> Keep] \in [Pupils -> RowType]
BY DEF Keep, RowType

\* The plan of a request on memberships.
Plan(joins, leaves, rows) ==
  [what |-> "roster", joins |-> joins, leaves |-> leaves, drop |-> {}, add |-> {}, rows |-> rows, says |-> "none"]

LEMMA PlansFromSame ==
  ASSUME NEW x, NEW rows
  PROVE  /\ [Same EXCEPT !.joins = x, !.rows = rows] = Plan(x, {}, rows)
         /\ [Same EXCEPT !.leaves = x, !.rows = rows] = Plan({}, x, rows)
<1>1. PICK keeps : keeps = [s \in Pupils |-> Keep]
  OBVIOUS
<1>2. Same = Plan({}, {}, keeps)
  BY <1>1 DEF Same, Plan
<1>3. [Plan({}, {}, keeps) EXCEPT !.joins = x] = Plan(x, {}, keeps)
      /\ [Plan({}, {}, keeps) EXCEPT !.leaves = x] = Plan({}, x, keeps)
  BY DEF Plan
<1>4. [Plan(x, {}, keeps) EXCEPT !.rows = rows] = Plan(x, {}, rows)
      /\ [Plan({}, x, keeps) EXCEPT !.rows = rows] = Plan({}, x, rows)
  BY DEF Plan
<1>5. QED
  BY <1>2, <1>3, <1>4

LEMMA JoinLeaveStep ==
  ASSUME RosterInv, NEW o \in Offices, NEW k \in Classes, NEW s \in Pupils,
         Join(o, k, s) \/ Leave(o, k, s)
  PROVE  RosterInv'
<1>1. RosterType
  BY DEF RosterInv
<1>2. PICK st \in {"active", "removed"}, p \in {Same} \cup PlanType :
        /\ Begin(o, p) /\ p.drop = {} /\ p.add = {} /\ p.says = "none" /\ p \in PlanType
        /\ \/ st = "active" /\ p.joins = {<<k, s>>} /\ p.leaves = {}
           \/ st = "removed" /\ p.leaves = {<<k, s>>} /\ p.joins = {}
        /\ p.rows = IF k \in links THEN Synced([member EXCEPT ![<<k, s>>] = st], links) ELSE [t \in Pupils |-> Keep]
  <2>1. CASE Join(o, k, s)
    <3>1. PICK rows \in [Pupils -> RowType] :
            rows = IF k \in links THEN Synced([member EXCEPT ![<<k, s>>] = "active"], links) ELSE [t \in Pupils |-> Keep]
      BY <1>1, SyncedRows, RowsOfKeep
    <3>2. Same.rows = [t \in Pupils |-> Keep]
      BY DEF Same
    <3>3. Begin(o, [Same EXCEPT !.joins = {<<k, s>>}, !.rows = rows])
      <4>1. Begin(o, [Same EXCEPT !.joins = {<<k, s>>},
                                  !.rows = IF k \in links THEN Synced([member EXCEPT ![<<k, s>>] = "active"], links) ELSE Same.rows])
        BY <2>1 DEF Join
      <4>2. rows = IF k \in links THEN Synced([member EXCEPT ![<<k, s>>] = "active"], links) ELSE Same.rows
        BY <3>1, <3>2
      <4>3. QED
        BY <4>1, <4>2
    <3>4. PICK p : p = Plan({<<k, s>>}, {}, rows)
      OBVIOUS
    <3>5. Begin(o, p)
      BY <3>3, <3>4, PlansFromSame
    <3>6. /\ p \in PlanType /\ p.drop = {} /\ p.add = {} /\ p.says = "none"
          /\ p.joins = {<<k, s>>} /\ p.leaves = {} /\ p.rows = rows
      BY <3>4 DEF Plan, PlanType
    <3>7. QED
      BY <3>1, <3>5, <3>6
  <2>2. CASE Leave(o, k, s)
    <3>1. PICK rows \in [Pupils -> RowType] :
            rows = IF k \in links THEN Synced([member EXCEPT ![<<k, s>>] = "removed"], links) ELSE [t \in Pupils |-> Keep]
      BY <1>1, SyncedRows, RowsOfKeep
    <3>2. Same.rows = [t \in Pupils |-> Keep]
      BY DEF Same
    <3>3. Begin(o, [Same EXCEPT !.leaves = {<<k, s>>}, !.rows = rows])
      <4>1. Begin(o, [Same EXCEPT !.leaves = {<<k, s>>},
                                  !.rows = IF k \in links THEN Synced([member EXCEPT ![<<k, s>>] = "removed"], links) ELSE Same.rows])
        BY <2>2 DEF Leave
      <4>2. rows = IF k \in links THEN Synced([member EXCEPT ![<<k, s>>] = "removed"], links) ELSE Same.rows
        BY <3>1, <3>2
      <4>3. QED
        BY <4>1, <4>2
    <3>4. PICK p : p = Plan({}, {<<k, s>>}, rows)
      OBVIOUS
    <3>5. Begin(o, p)
      BY <3>3, <3>4, PlansFromSame
    <3>6. /\ p \in PlanType /\ p.drop = {} /\ p.add = {} /\ p.says = "none"
          /\ p.joins = {} /\ p.leaves = {<<k, s>>} /\ p.rows = rows
      BY <3>4 DEF Plan, PlanType
    <3>7. QED
      BY <3>1, <3>5, <3>6
  <2>3. QED
    BY <2>1, <2>2
<1>3. LinksAfter(p) = links /\ MemberAfter(p) = [member EXCEPT ![<<k, s>>] = st]
  BY <1>1, <1>2 DEF LinksAfter, MemberAfter, RosterType, Membership
<1>4. CASE k \in links
  BY <1>2, <1>3, <1>4, ClassStep
<1>5. CASE k \notin links
  <2>1. \A t \in Pupils : InClass(MemberAfter(p), LinksAfter(p), t) <=> InClass(member, links, t)
    BY <1>1, <1>3, <1>5 DEF InClass, RosterType, Membership
  <2>2. QED
    BY <1>2, <1>5, <2>1, ClassStep
<1>6. QED
  BY <1>4, <1>5

LEMMA SetClassesStep ==
  ASSUME RosterInv, NEW o \in Offices, NEW ks \in SUBSET Classes, SetClasses(o, ks)
  PROVE  RosterInv'
<1> DEFINE p == [Same EXCEPT !.drop = links, !.add = ks, !.rows = Synced(member, ks)]
<1>1. RosterType
  BY DEF RosterInv
<1>2. Begin(o, p)
  BY DEF SetClasses
<1>3. Synced(member, ks) \in [Pupils -> RowType]
  BY <1>1, SyncedRows
<1>4. /\ p \in PlanType /\ p.joins = {} /\ p.leaves = {} /\ p.drop = links /\ p.add = ks
      /\ p.says = "none" /\ p.rows = Synced(member, ks)
  BY <1>1, <1>3 DEF Same, PlanType, RosterType
<1> HIDE DEF p
<1>5. LinksAfter(p) = ks /\ MemberAfter(p) = member
  BY <1>1, <1>4 DEF LinksAfter, MemberAfter, RosterType, Membership
<1>6. QED
  BY <1>2, <1>4, <1>5, ClassStep

\* The request writes what it has read and decided.
LEMMA CommitStep ==
  ASSUME RosterInv, NEW o \in Offices, Commit(o)
  PROVE  RosterInv'
<1> DEFINE p == office[o]
<1>1. /\ p # Vacant /\ ~Clash(p)
      /\ member' = MemberAfter(p) /\ links' = LinksAfter(p)
      /\ enrolment' = [s \in Pupils |-> Written(s, p.rows[s])]
      /\ word' = [s \in Pupils |-> WordAfter(p, s)]
      /\ office' = [office EXCEPT ![o] = Vacant]
      /\ UNCHANGED <<course, task, crossed>>
  BY DEF Commit, MemberAfter, LinksAfter, WordAfter
<1>2. RosterType /\ RowsReal
  BY DEF RosterInv
<1>3. p \in PlanType /\ office \in [Offices -> {Vacant} \cup PlanType]
  BY <1>1, <1>2 DEF RosterType
<1> HIDE DEF p
<1>4. MemberAfter(p) \in Membership /\ LinksAfter(p) \subseteq Classes
  BY <1>2, <1>3 DEF RosterType, MemberAfter, LinksAfter, Membership, PlanType
<1>5. \A s \in Pupils : p.rows[s] \in RowType /\ RowReal(s, p.rows[s])
  BY <1>1, <1>2, <1>3 DEF RowsReal, PlanType, p
<1>6. ASSUME NEW s \in Pupils
      PROVE  /\ Written(s, p.rows[s]) \in Standing
             /\ enrolment[s] # None => Written(s, p.rows[s]) # None
  <2>1. p.rows[s].insert => enrolment[s] = None
    BY <1>1 DEF Clash
  <2>2. enrolment[s] \in Standing /\ p.rows[s] \in RowType /\ RowReal(s, p.rows[s])
    BY <1>2, <1>5 DEF RosterType
  <2>3. CASE p.rows[s] = Keep
    BY <1>2, <2>2, <2>3, KeepRow
  <2>4. CASE p.rows[s].status # "keep" /\ p.rows[s].origin # "keep"
    <3>1. p.rows[s].status \in {"enrolled", "dropped"} /\ p.rows[s].origin \in {"class", "manual", "self"}
      BY <2>2, <2>4 DEF RowType
    <3>2. Written(s, p.rows[s]) = [status |-> p.rows[s].status, origin |-> p.rows[s].origin]
      BY <2>4 DEF Written
    <3>3. QED
      BY <3>1, <3>2 DEF Standing, None
  <2>5. CASE enrolment[s] # None
    <3>1. enrolment[s] \in [status : {"enrolled", "dropped"}, origin : {"class", "manual", "self"}]
      BY <2>2, <2>5 DEF Standing
    <3>2. /\ p.rows[s].status \in {"keep", "enrolled", "dropped"}
          /\ p.rows[s].origin \in {"keep", "class", "manual", "self"}
      BY <2>2 DEF RowType
    <3>3. QED
      BY <3>1, <3>2 DEF Written, Standing, None
  <2>6. QED
    BY <2>2, <2>3, <2>4, <2>5 DEF RowReal
<1>7. \A s \in Pupils : WordAfter(p, s) \in {"none", "in", "out"}
  BY <1>2, <1>3 DEF RosterType, Words, WordAfter, PlanType
<1>8. RosterType'
  <2>1. enrolment' \in [Pupils -> Standing] /\ word' \in Words
    BY <1>1, <1>6, <1>7 DEF Words
  <2>2. office' \in [Offices -> {Vacant} \cup PlanType]
    BY <1>1, <1>3
  <2>3. QED
    BY <1>1, <1>2, <1>4, <2>1, <2>2 DEF RosterType
<1>9. RowsReal'
  <2>1. \A q \in Offices : office'[q] # Vacant =>
          office'[q] = office[q] /\ \A s \in Pupils : RowReal(s, office[q].rows[s])
    BY <1>1, <1>2, <1>3 DEF RowsReal
  <2>2. \A s \in Pupils : enrolment[s] # None => enrolment'[s] # None
    BY <1>1, <1>6
  <2>3. QED
    BY <2>1, <2>2 DEF RowsReal, RowReal
<1>10. ASSUME ~crossed' PROVE AllKept' /\ OneAtATime' /\ AllPrepared'
  <2>1. Prepared(p) /\ \A q \in Offices : office'[q] = Vacant
    BY <1>1, <1>3, <1>10 DEF RosterInv, OneAtATime, AllPrepared, p
  <2>2. AllKept'
    <3>1. SUFFICES ASSUME NEW s \in Pupils PROVE Kept(enrolment'[s], InClass(member', links', s), word'[s])
      BY DEF AllKept
    <3>2. Kept(Written(s, p.rows[s]), InClass(MemberAfter(p), LinksAfter(p), s), WordAfter(p, s))
      BY <2>1 DEF Prepared
    <3>3. QED
      BY <1>1, <3>2
  <2>3. QED
    BY <2>1, <2>2 DEF OneAtATime, AllPrepared
<1>11. QED
  BY <1>8, <1>9, <1>10 DEF RosterInv

\* A step that leaves the roster alone, and no request that was not under way before.
LEMMA RosterFrame ==
  ASSUME RosterInv, RosterType', UNCHANGED <<member, links, enrolment, word, crossed>>,
         \A q \in Offices : office'[q] # Vacant => office'[q] = office[q]
  PROVE  RosterInv'
<1>1. RowsReal'
  BY DEF RosterInv, RowsReal, RowReal
<1>2. ASSUME ~crossed' PROVE AllKept' /\ OneAtATime' /\ AllPrepared'
  <2>1. AllKept /\ OneAtATime /\ AllPrepared
    BY <1>2 DEF RosterInv
  <2>2. AllKept' /\ OneAtATime'
    BY <2>1 DEF AllKept, OneAtATime, InClass
  <2>3. ASSUME NEW p, Prepared(p) PROVE Prepared(p)'
    BY <2>3 DEF Prepared, Written, MemberAfter, LinksAfter, WordAfter, InClass
  <2>4. AllPrepared'
    BY <2>1, <2>3 DEF AllPrepared
  <2>5. QED
    BY <2>2, <2>4
<1>3. QED
  BY <1>1, <1>2 DEF RosterInv

\* What happens to the settings of the course and of the task does not touch the roster.
LEMMA OtherSteps ==
  ASSUME RosterInv,
         UpdateCourse \/ Whitelist \/ SaveAudience \/ ImportAudience \/ \E o \in Offices : RollBack(o)
  PROVE  RosterInv'
<1>1. RosterType
  BY DEF RosterInv
<1>2. CASE \E o \in Offices : RollBack(o)
  <2>1. PICK o \in Offices : RollBack(o)
    BY <1>2
  <2>2. /\ office' = [office EXCEPT ![o] = Vacant]
        /\ UNCHANGED <<course, member, links, enrolment, task, word, crossed>>
    BY <2>1 DEF RollBack
  <2>3. /\ office' \in [Offices -> {Vacant} \cup PlanType]
        /\ \A q \in Offices : office'[q] # Vacant => office'[q] = office[q]
    BY <1>1, <2>2 DEF RosterType
  <2>4. RosterType'
    BY <1>1, <2>2, <2>3 DEF RosterType
  <2>5. QED
    BY <2>2, <2>3, <2>4, RosterFrame
<1>3. CASE UpdateCourse \/ Whitelist \/ SaveAudience \/ ImportAudience
  <2>1. UNCHANGED <<member, links, enrolment, office, word, crossed>>
    BY <1>3 DEF UpdateCourse, Whitelist, SaveAudience, ImportAudience, Setting
  <2>2. course' \in CourseType /\ task' \in TaskType
    <3>1. CASE UpdateCourse
      BY <1>1, <3>1 DEF RosterType, UpdateCourse, CourseType
    <3>2. CASE Whitelist
      BY <1>1, <3>2 DEF RosterType, Whitelist
    <3>3. CASE SaveAudience
      BY <1>1, <3>3 DEF RosterType, SaveAudience, TaskType, Modes
    <3>4. CASE ImportAudience
      BY <1>1, <3>4 DEF RosterType, ImportAudience, TaskType
    <3>5. QED
      BY <1>3, <3>1, <3>2, <3>3, <3>4
  <2>3. RosterType'
    BY <1>1, <2>1, <2>2 DEF RosterType
  <2>4. QED
    BY <2>1, <2>3, RosterFrame
<1>4. QED
  BY <1>2, <1>3

\* A decision that a teacher takes, or a student for himself.
LEMMA StudentStep ==
  ASSUME RosterInv, NEW o \in Offices, NEW s \in Pupils,
         AddStudent(o, s) \/ RemoveStudent(o, s) \/ ImportStudent(o, s) \/ EnrollCourse(o, s) \/ DropCourse(o, s)
  PROVE  RosterInv'
<1>1. CASE AddStudent(o, s) \/ ImportStudent(o, s)
  BY <1>1, OneStep DEF AddStudent, ImportStudent
<1>2. CASE RemoveStudent(o, s)
  BY <1>2, OneStep DEF RemoveStudent
<1>3. CASE EnrollCourse(o, s)
  BY <1>3, OneStep DEF EnrollCourse
<1>4. CASE DropCourse(o, s)
  <2>1. enrolment[s] \in Standing /\ enrolment[s] # None /\ enrolment[s].origin # "class"
    BY <1>4 DEF DropCourse, RosterInv, RosterType
  <2>2. enrolment[s].origin \in {"manual", "self"}
    BY <2>1 DEF Standing
  <2>3. QED
    BY <1>4, <2>2, OneStep DEF DropCourse
<1>5. QED
  BY <1>1, <1>2, <1>3, <1>4

LEMMA RosterInit == CourseInit => RosterInv
<1>1. SUFFICES ASSUME CourseInit PROVE RosterInv
  OBVIOUS
<1>2. RosterType
  BY <1>1 DEF CourseInit, RosterType, CourseType, Membership, Standing, TaskType, Modes, Words
<1>3. \A o \in Offices : office[o] = Vacant
  BY <1>1 DEF CourseInit
<1>4. ~\E s \in Pupils : InClass(member, links, s)
  BY <1>1 DEF CourseInit, InClass
<1>5. AllKept
  BY <1>1, <1>4 DEF CourseInit, AllKept, Kept, None
<1>6. QED
  BY <1>2, <1>3, <1>5 DEF RosterInv, RowsReal, OneAtATime, AllPrepared

\* What one of two requests that do not overlap has read is what it finds when it
\* writes, and so each leaves the roster as the promises want it.
THEOREM RosterInvariant == CourseSpec => []RosterInv
<1>1. RosterInv /\ [CourseNext]_courseVars => RosterInv'
  <2>1. SUFFICES ASSUME RosterInv, [CourseNext]_courseVars PROVE RosterInv'
    OBVIOUS
  <2>2. CASE \E o \in Offices : OfTheClass(o)
    BY <2>1, <2>2, JoinLeaveStep DEF OfTheClass
  <2>3. CASE \E o \in Offices : OfTheStudent(o)
    BY <2>1, <2>3, StudentStep DEF OfTheStudent
  <2>4. CASE \E o \in Offices : Commit(o) \/ \E ks \in SUBSET Classes : SetClasses(o, ks)
    BY <2>1, <2>4, CommitStep, SetClassesStep
  <2>5. CASE UpdateCourse \/ Whitelist \/ SaveAudience \/ ImportAudience \/ \E o \in Offices : RollBack(o)
    BY <2>1, <2>5, OtherSteps
  <2>6. CASE UNCHANGED courseVars
    <3>1. UNCHANGED <<course, member, links, enrolment, task, office, word, crossed>>
      BY <2>6 DEF courseVars
    <3>2. RosterType'
      BY <2>1, <3>1 DEF RosterInv, RosterType
    <3>3. QED
      BY <2>1, <3>1, <3>2, RosterFrame
  <2>7. QED
    BY <2>1, <2>2, <2>3, <2>4, <2>5, <2>6 DEF CourseNext
<1>2. QED
  BY <1>1, RosterInit, PTL DEF CourseSpec

\* The predicates that are written twice, once for a list and once for a check.
LEMMA ListsAgree == RosterType => ListedIsOpen
<1>1. SUFFICES ASSUME RosterType, NEW s \in Pupils
               PROVE  /\ Listed(s) <=> CanView(s)
                      /\ TaskListed(s) <=> CanStart(s) /\ course.status = "published"
  BY DEF ListedIsOpen
<1>2. course.visibility \in {"class", "whitelist", "private", "public"} /\ links \subseteq Classes
  BY <1>1 DEF RosterType, CourseType
<1>3. (\E k \in Classes : member[<<k, s>>] = "active" /\ k \in links) <=> InClass(member, links, s)
  BY <1>2 DEF InClass
<1>4. Listed(s) <=> CanView(s)
  <2>1. {k \in Classes : member[<<k, s>>] = "active"} \cap links # {} <=> InClass(member, links, s)
    BY <1>3
  <2>2. {r \in {enrolment[s]} : r.status = "enrolled"} # {} <=> Enrolled(s)
    BY DEF Enrolled
  <2>3. (\E r \in {r \in {enrolment[s]} : r.status = "enrolled"} : r.origin = "manual")
          <=> Enrolled(s) /\ enrolment[s].origin = "manual"
    BY DEF Enrolled
  <2>4. QED
    BY <1>2, <2>1, <2>2, <2>3 DEF Listed, CanView
<1>5. TaskListed(s) <=> CanStart(s) /\ course.status = "published"
  <2>1. task.mode \in Modes
    BY <1>1 DEF RosterType, TaskType
  <2>2. s \in Audience <=>
          /\ \/ task.mode = "all_enrolled" /\ Enrolled(s)
             \/ task.mode = "selected_classes" /\ InClass(member, task.classes, s)
             \/ s \in task.include
          /\ s \notin task.exclude \/ s \in task.include
    BY <2>1 DEF Audience, Modes
  <2>3. QED
    BY <2>2 DEF TaskListed, CanStart
<1>6. QED
  BY <1>4, <1>5

(* As long as no two requests on the roster overlap, an enrolment that the *)
(* classes brought lasts as long as a linked class has the student, every  *)
(* member of a linked class has one, and no synchronisation overrides what *)
(* a teacher or the student decided; and always what a list shows can be   *)
(* opened, and the other way round (roster_service, api/academics.py,      *)
(* api/courses.py, audience_service).                                      *)
THEOREM RosterIsSound == CourseSpec => []RosterSound
<1>1. RosterInv => RosterSound
  <2>1. SUFFICES ASSUME RosterInv PROVE RosterSound
    OBVIOUS
  <2>2. RosterKept
    BY <2>1 DEF RosterInv, RosterKept, AllKept, Kept
  <2>3. QED
    BY <2>1, <2>2, ListsAgree DEF RosterInv, RosterSound
<1>2. QED
  BY <1>1, RosterInvariant, PTL

-----------------------------------------------------------------------------
(* NotebookEntry                                                            *)

EntrySpec == EntryInit /\ [][EntryNext]_entryVars

Known == DOMAIN latest
EntryRow == [notebook : BOOLEAN, status : {"draft", "published"}, template : Templates \cup {Unbound}]
ClerkRow == [what : {"none", "bind", "publish", "start"}, e : Entries \cup {Unbound},
             t : Templates \cup {Unbound}, version : Nat]
StartRow == [template : Templates \cup {Unbound}, version : Nat]

EntryType == /\ entry \in [Entries -> EntryRow] /\ Known \subseteq Templates /\ latest \in [Known -> Nat]
             /\ \A e \in Entries : entry[e].template # Unbound => Exists(entry[e].template)
             /\ started \in [Entries -> StartRow] /\ clerk \in [Clerks -> ClerkRow]
             /\ patched \subseteq Entries /\ entangled \in BOOLEAN

\* A version that was read is there, and stays there.
Real(t, v) == Exists(t) /\ v \in 1..latest[t]
Begun == \A e \in Entries : started[e] # NotStarted => Real(started[e].template, started[e].version)
Asked == \A c \in Clerks :
  /\ clerk[c].what # "none" => clerk[c].e \in Entries
  /\ clerk[c].what = "bind" => Exists(clerk[c].t)
  /\ clerk[c].what = "start" => Real(clerk[c].t, clerk[c].version)

\* A template that was not patched in has one entry.
Apart == \A e, f \in Entries \ patched :
  entry[e].template # Unbound /\ entry[e].template = entry[f].template => e = f

ShownUsable == \A e \in Entries : Shown(e) /\ e \notin waived => Usable(e)

\* What a request has found is still so when it writes.
StillSo == \A c \in Clerks :
  /\ clerk[c].what = "publish" => (entry[clerk[c].e].notebook => Usable(clerk[c].e))
  /\ clerk[c].what = "bind" => \A f \in Hosts(clerk[c].t) \ {clerk[c].e} : ~Shown(f)

EntryInv == EntryType /\ Begun /\ Asked /\ Apart /\ (~entangled => ShownUsable /\ StillSo)

LEMMA Eased == AtEase \in ClerkRow /\ AtEase.what = "none"
BY DEF AtEase, ClerkRow, Unbound

\* A request that writes, if no other has read before it, leaves nobody waiting.
LEMMA EntryWrite ==
  ASSUME EntryInv, EntryType', Begun', Asked', Apart',
         ~entangled' => ~entangled /\ \A c \in Clerks : clerk'[c] = AtEase,
         ~entangled /\ ShownUsable /\ StillSo => ShownUsable'
  PROVE  EntryInv'
<1>1. ~entangled' => ShownUsable'
  BY DEF EntryInv
<1>2. ~entangled' => StillSo'
  BY Eased DEF StillSo
<1>3. QED
  BY <1>1, <1>2 DEF EntryInv

LEMMA AtOnceWrite ==
  ASSUME EntryInv, AtOnce
  PROVE  clerk' = clerk /\ entangled' \in BOOLEAN
         /\ (~entangled' => ~entangled /\ \A c \in Clerks : clerk'[c] = AtEase)
BY DEF AtOnce, Wrote, Pending, EntryInv, EntryType

LEMMA ClerkWrites ==
  ASSUME EntryInv, NEW c \in Clerks, NEW what, Writes(c, what), what # "none"
  PROVE  /\ clerk[c].what = what /\ clerk[c].e \in Entries
         /\ clerk' \in [Clerks -> ClerkRow] /\ entangled' \in BOOLEAN
         /\ \A d \in Clerks : clerk'[d] = AtEase \/ clerk'[d] = clerk[d]
         /\ ~entangled' => ~entangled /\ \A d \in Clerks : clerk'[d] = AtEase
<1>1. clerk \in [Clerks -> ClerkRow] /\ entangled \in BOOLEAN
  BY DEF EntryInv, EntryType
<1>2. clerk[c].what = what /\ clerk' = [clerk EXCEPT ![c] = AtEase] /\ Wrote(Clerks \ {c})
  BY DEF Writes
<1>3. \A d \in Clerks : clerk'[d] = IF d = c THEN AtEase ELSE clerk[d]
  BY <1>1, <1>2
<1>4. clerk[c].e \in Entries
  BY <1>2 DEF EntryInv, Asked
<1>5. clerk' \in [Clerks -> ClerkRow]
  BY <1>1, <1>2, Eased
<1>6. entangled' \in BOOLEAN /\ (~entangled' => ~entangled /\ \A d \in Clerks \ {c} : clerk[d] = AtEase)
  BY <1>1, <1>2 DEF Wrote, Pending
<1>7. QED
  BY <1>2, <1>3, <1>4, <1>5, <1>6

LEMMA ReadStep ==
  ASSUME EntryInv, NEW c \in Clerks, Teach(c)
  PROVE  EntryInv'
<1>1. PICK what \in {"bind", "publish", "start"}, e \in Entries, t \in Templates \cup {Unbound}, v \in Nat :
        /\ EntryReads(c, what, e, t, v)
        /\ what = "bind" => Exists(t) /\ \A f \in Hosts(t) \ {e} : ~Shown(f)
        /\ what = "publish" => (entry[e].notebook => Usable(e))
        /\ what = "start" => Real(t, v)
  <2>1. CASE \E e \in Entries : PublishEntry(c, e)
    BY <2>1 DEF PublishEntry
  <2>2. CASE \E e \in Entries : StartRecord(c, e)
    <3>1. PICK e \in Entries : StartRecord(c, e)
      BY <2>2
    <3>2. /\ EntryReads(c, "start", e, entry[e].template, latest[entry[e].template])
          /\ Exists(entry[e].template) /\ latest[entry[e].template] > 0
      BY <3>1 DEF StartRecord, Usable, Versioned
    <3>3. entry[e].template \in Templates /\ latest[entry[e].template] \in Nat
      BY <3>2 DEF EntryInv, EntryType, Exists, Known
    <3>4. Real(entry[e].template, latest[entry[e].template])
      BY <3>2, <3>3 DEF Real
    <3>5. QED
      BY <3>2, <3>3, <3>4
  <2>3. CASE \E e \in Entries, t \in Templates : BindTemplate(c, t, e)
    BY <2>3 DEF BindTemplate
  <2>4. QED
    BY <2>1, <2>2, <2>3 DEF Teach
<1> DEFINE new == [what |-> what, e |-> e, t |-> t, version |-> v]
<1>2. /\ clerk' = [clerk EXCEPT ![c] = new] /\ clerk \in [Clerks -> ClerkRow]
      /\ UNCHANGED <<entry, latest, started, published, waived, patched, entangled>>
  BY <1>1 DEF EntryReads, EntryInv, EntryType
<1>3. new \in ClerkRow /\ new.what = what /\ new.e = e /\ new.t = t /\ new.version = v
  BY DEF ClerkRow
<1> HIDE DEF new
<1>4. /\ clerk' \in [Clerks -> ClerkRow] /\ clerk'[c] = new
      /\ \A d \in Clerks : d # c => clerk'[d] = clerk[d]
  BY <1>2, <1>3
<1>5. EntryType'
  BY <1>2, <1>4 DEF EntryInv, EntryType, Known, Exists
<1>6. Begun' /\ Apart'
  BY <1>2 DEF EntryInv, Begun, Apart, Real, Exists
<1>7. Asked'
  BY <1>1, <1>2, <1>3, <1>4 DEF EntryInv, Asked, Real, Exists
<1>8. ~entangled' => ShownUsable' /\ StillSo'
  <2>1. SUFFICES ASSUME ~entangled PROVE ShownUsable' /\ StillSo'
    BY <1>2
  <2>2. ShownUsable /\ StillSo
    BY <2>1 DEF EntryInv
  <2>3. ShownUsable'
    BY <1>2, <2>2 DEF ShownUsable, Shown, Usable, Versioned, Exists
  <2>4. ASSUME NEW d \in Clerks
        PROVE  /\ clerk'[d].what = "publish" => (entry[clerk'[d].e].notebook => Usable(clerk'[d].e))
               /\ clerk'[d].what = "bind" => \A f \in Hosts(clerk'[d].t) \ {clerk'[d].e} : ~Shown(f)
    <3>1. CASE d = c
      BY <1>1, <1>3, <1>4, <3>1
    <3>2. CASE d # c
      BY <1>4, <2>2, <3>2 DEF StillSo
    <3>3. QED
      BY <3>1, <3>2
  <2>5. StillSo'
    BY <1>2, <2>4 DEF StillSo, Usable, Versioned, Exists, Hosts, Shown
  <2>6. QED
    BY <2>3, <2>5
<1>9. QED
  BY <1>5, <1>6, <1>7, <1>8 DEF EntryInv

\* Versions are added and never taken back.
LEMMA LatestGrows ==
  ASSUME EntryInv, EntryType', \A t \in Known : t \in Known' /\ latest'[t] >= latest[t],
         UNCHANGED started, \A d \in Clerks : clerk'[d] = AtEase \/ clerk'[d] = clerk[d]
  PROVE  Begun' /\ Asked' /\ \A t : (Versioned(t) => Versioned(t)') /\ (Exists(t) => Exists(t)')
<1>1. latest \in [Known -> Nat] /\ latest' \in [Known' -> Nat]
  BY DEF EntryInv, EntryType
<1>2. ASSUME NEW t, Exists(t)
      PROVE  Exists(t)' /\ latest[t] \in Nat /\ latest'[t] \in Nat /\ latest'[t] >= latest[t]
  BY <1>1, <1>2 DEF Exists, Known
<1>3. ASSUME NEW t, NEW v, Real(t, v) PROVE Real(t, v)'
  BY <1>2, <1>3 DEF Real
<1>4. Begun'
  BY <1>3 DEF EntryInv, Begun
<1>5. Asked'
  <2>1. ASSUME NEW d \in Clerks
        PROVE  /\ clerk[d].what # "none" => clerk[d].e \in Entries
               /\ clerk[d].what = "bind" => clerk[d].t \in Known'
               /\ clerk[d].what = "start" => clerk[d].t \in Known' /\ clerk[d].version \in 1..latest'[clerk[d].t]
    <3>1. \A t, v : Real(t, v) => t \in Known' /\ v \in 1..latest'[t]
      BY <1>3 DEF Real, Exists, Known
    <3>2. \A t : Exists(t) => t \in Known'
      BY <1>2 DEF Exists, Known
    <3>3. QED
      BY <3>1, <3>2 DEF EntryInv, Asked
  <2>2. ASSUME NEW d \in Clerks
        PROVE  /\ clerk'[d].what # "none" => clerk'[d].e \in Entries
               /\ clerk'[d].what = "bind" => clerk'[d].t \in Known'
               /\ clerk'[d].what = "start" => clerk'[d].t \in Known' /\ clerk'[d].version \in 1..latest'[clerk'[d].t]
    <3>1. CASE clerk'[d] = AtEase
      BY <3>1, Eased
    <3>2. CASE clerk'[d] = clerk[d]
      BY <2>1, <3>2
    <3>3. QED
      BY <3>1, <3>2
  <2>3. QED
    BY <2>2 DEF Asked, Real, Exists, Known
<1>6. \A t : Versioned(t) => Versioned(t)'
  BY <1>2 DEF Versioned
<1>7. QED
  BY <1>2, <1>4, <1>5, <1>6

\* The template t goes to e, and all its other bindings end.
LEMMA Rebinding ==
  ASSUME EntryInv, NEW t \in Templates, NEW e \in Entries, entry' = Rebound(t, e), Waive(t, e),
         patched' = patched \ {e}, Exists(t)', EntryType',
         \A u \in Templates : Exists(u) => Exists(u)',
         \A u \in Templates : Versioned(u) => Versioned(u)'
  PROVE  /\ Apart'
         /\ ShownUsable /\ (\A f \in Hosts(t) \ {e} : ~Shown(f)) => ShownUsable'
<1>1. /\ entry \in [Entries -> EntryRow] /\ t # Unbound
      /\ \A f \in Entries : entry[f].template # Unbound => Exists(entry[f].template) /\ entry[f].template \in Templates
  BY EntryAssumption DEF EntryInv, EntryType, EntryRow, Unbound
<1>2. \A f \in Entries :
        /\ entry'[f].notebook = entry[f].notebook /\ entry'[f].status = entry[f].status
        /\ f = e => entry'[f].template = t
        /\ f # e => entry'[f].template = IF entry[f].template = t THEN Unbound ELSE entry[f].template
  BY <1>1 DEF Rebound, Hosts, EntryRow
<1>3. Apart'
  BY <1>1, <1>2 DEF EntryInv, Apart
<1> DEFINE There(u) == u \in Known' /\ latest'[u] > 0
<1>4. \A u \in Templates : Versioned(u) => There(u)
  BY DEF Versioned, Exists, Known
<1>5. ASSUME ShownUsable, \A f \in Hosts(t) \ {e} : ~Shown(f) PROVE ShownUsable'
  <2>1. SUFFICES ASSUME NEW f \in Entries, Shown(f)', f \notin waived' PROVE entry'[f].template \in Known' /\ latest'[entry'[f].template] > 0
    BY DEF ShownUsable, Usable, Versioned, Exists, Known
  <2>2. Shown(f)
    BY <1>2, <2>1 DEF Shown
  <2>3. waived' = IF Shown(e) /\ ~Versioned(t) THEN waived \cup {e} ELSE waived \ {e}
    BY EntryAssumption DEF Waive, Unbound, Entries
  <2>4. CASE f = e
    <3>1. Versioned(t)
      BY <2>1, <2>2, <2>3, <2>4
    <3>2. QED
      BY <1>4, <1>2, <2>4, <3>1
  <2>5. CASE f # e
    <3>1. entry[f].template # t /\ f \notin waived
      BY <1>5, <2>1, <2>2, <2>3, <2>5 DEF Hosts
    <3>2. Versioned(entry[f].template)
      BY <1>5, <2>2, <3>1 DEF ShownUsable, Usable
    <3>3. entry[f].template \in Templates /\ entry'[f].template = entry[f].template
      BY <1>2, <2>5, <3>1, <3>2 DEF EntryInv, EntryType, Versioned, Exists, Known
    <3>4. QED
      BY <1>4, <3>2, <3>3
  <2>6. QED
    BY <2>4, <2>5
<1>6. QED
  BY <1>3, <1>5

LEMMA ReboundType ==
  ASSUME EntryInv, NEW t \in Templates, NEW e \in Entries
  PROVE  Rebound(t, e) \in [Entries -> EntryRow]
         /\ \A f \in Entries : Rebound(t, e)[f].template \in {t, Unbound, entry[f].template}
BY DEF EntryInv, EntryType, EntryRow, Rebound

LEMMA CreateTemplateStep ==
  ASSUME EntryInv, NEW t \in Templates, NEW e \in Entries \cup {Unbound}, CreateTemplate(t, e)
  PROVE  EntryInv'
<1>1. /\ ~Exists(t) /\ latest' = [u \in Known \cup {t} |-> IF u = t THEN 0 ELSE latest[u]]
      /\ entry' = (IF e = Unbound THEN entry ELSE Rebound(t, e))
      /\ Waive(t, e) /\ patched' = patched \ {e} /\ AtOnce /\ UNCHANGED <<started, published>>
  BY DEF CreateTemplate, Known
<1>2. clerk' = clerk /\ entangled' \in BOOLEAN
      /\ (~entangled' => ~entangled /\ \A c \in Clerks : clerk'[c] = AtEase)
  BY <1>1, AtOnceWrite
<1>3. Known \subseteq Templates /\ latest \in [Known -> Nat] /\ entry \in [Entries -> EntryRow]
  BY DEF EntryInv, EntryType
<1>4. /\ Known' = Known \cup {t} /\ latest' \in [Known' -> Nat]
      /\ \A u \in Known : u \in Known' /\ latest'[u] = latest[u]
  BY <1>1, <1>3 DEF Exists, Known
<1>5. entry' \in [Entries -> EntryRow] /\ \A f \in Entries : entry'[f].template # Unbound => entry'[f].template \in Known'
  <2>1. \A f \in Entries : entry[f].template # Unbound => entry[f].template \in Known'
    BY <1>4 DEF EntryInv, EntryType, Exists, Known
  <2>2. t \in Known'
    BY <1>4
  <2>3. CASE e = Unbound
    BY <1>1, <1>3, <2>1, <2>3
  <2>4. CASE e # Unbound
    BY <1>1, <2>1, <2>2, <2>4, ReboundType
  <2>5. QED
    BY <2>3, <2>4
<1>6. EntryType'
  BY <1>1, <1>2, <1>3, <1>4, <1>5 DEF EntryInv, EntryType, Exists, Known
<1>7. \A u \in Known : latest[u] \in Nat /\ latest'[u] >= latest[u]
  BY <1>3, <1>4
<1>8. Begun' /\ Asked' /\ \A u : (Versioned(u) => Versioned(u)') /\ (Exists(u) => Exists(u)')
  BY <1>1, <1>2, <1>4, <1>6, <1>7, LatestGrows
<1>9. Apart' /\ (ShownUsable => ShownUsable')
  <2>1. CASE e = Unbound
    <3>1. entry' = entry /\ waived' = waived /\ patched' = patched
      BY <1>1, <2>1, EntryAssumption DEF Waive, Unbound, Entries, EntryInv, EntryType
    <3>2. QED
      BY <1>8, <3>1 DEF EntryInv, Apart, ShownUsable, Shown, Usable
  <2>2. CASE e # Unbound
    <3>1. e \in Entries /\ entry' = Rebound(t, e) /\ Exists(t)'
      BY <1>1, <1>4, <2>2 DEF Exists, Known
    <3>2. Hosts(t) = {}
      BY <1>1, EntryAssumption DEF Hosts, EntryInv, EntryType, Unbound
    <3>3. QED
      BY <1>1, <1>6, <1>8, <3>1, <3>2, Rebinding
  <2>3. QED
    BY <2>1, <2>2
<1>10. QED
  BY <1>2, <1>6, <1>8, <1>9, EntryWrite

LEMMA EndBindStep ==
  ASSUME EntryInv, NEW c \in Clerks, EndBindTemplate(c)
  PROVE  EntryInv'
<1> DEFINE t == clerk[c].t  e == clerk[c].e
<1>1. /\ Writes(c, "bind") /\ entry' = Rebound(t, e) /\ Waive(t, e) /\ patched' = patched \ {e}
      /\ UNCHANGED <<latest, started, published>>
  BY DEF EndBindTemplate
<1>2. /\ clerk[c].what = "bind" /\ e \in Entries
      /\ clerk' \in [Clerks -> ClerkRow] /\ entangled' \in BOOLEAN
      /\ \A d \in Clerks : clerk'[d] = AtEase \/ clerk'[d] = clerk[d]
      /\ ~entangled' => ~entangled /\ \A d \in Clerks : clerk'[d] = AtEase
  BY <1>1, ClerkWrites
<1>3. Exists(t) /\ t \in Templates
  BY <1>2 DEF EntryInv, EntryType, Asked, Exists, Known
<1>4. EntryType'
  <2>1. entry' \in [Entries -> EntryRow]
        /\ \A f \in Entries : entry'[f].template \in {t, Unbound, entry[f].template}
    BY <1>1, <1>2, <1>3, ReboundType
  <2>2. \A f \in Entries : entry'[f].template # Unbound => entry'[f].template \in Known'
    BY <1>1, <1>3, <2>1 DEF EntryInv, EntryType, Exists, Known
  <2> HIDE DEF t, e
  <2>3. QED
    BY <1>1, <1>2, <2>1, <2>2 DEF EntryInv, EntryType, Exists, Known
<1>5. \A u \in Known : u \in Known' /\ latest'[u] >= latest[u]
  BY <1>1 DEF EntryInv, EntryType, Known
<1>6. Begun' /\ Asked' /\ \A u : (Versioned(u) => Versioned(u)') /\ (Exists(u) => Exists(u)')
  BY <1>1, <1>2, <1>4, <1>5, LatestGrows
<1>7. Apart' /\ (ShownUsable /\ (\A f \in Hosts(t) \ {e} : ~Shown(f)) => ShownUsable')
  <2> HIDE DEF t, e
  <2>1. QED
    BY <1>1, <1>2, <1>3, <1>4, <1>6, Rebinding
<1>8. StillSo => \A f \in Hosts(t) \ {e} : ~Shown(f)
  BY <1>2 DEF StillSo
<1> HIDE DEF t, e
<1>9. QED
  BY <1>2, <1>4, <1>6, <1>7, <1>8, EntryWrite

\* Steps that change one entry, and no version.
LEMMA EntryChange ==
  ASSUME EntryInv, NEW e \in Entries, NEW row \in EntryRow, entry' = [entry EXCEPT ![e] = row],
         row.template # Unbound => Exists(row.template), UNCHANGED <<latest, started>>,
         clerk' \in [Clerks -> ClerkRow], \A d \in Clerks : clerk'[d] = AtEase \/ clerk'[d] = clerk[d],
         patched' \in SUBSET Entries, patched \subseteq patched', entangled' \in BOOLEAN,
         row.template = entry[e].template \/ e \in patched'
  PROVE  EntryType' /\ Begun' /\ Asked' /\ Apart'
<1>1. entry' \in [Entries -> EntryRow] /\ \A f \in Entries : entry'[f] = IF f = e THEN row ELSE entry[f]
  BY DEF EntryInv, EntryType
<1>2. EntryType'
  <2>1. \A f \in Entries : entry'[f].template # Unbound => entry'[f].template \in Known'
    BY <1>1 DEF EntryInv, EntryType, Exists, Known
  <2>2. QED
    BY <1>1, <2>1 DEF EntryInv, EntryType, Exists, Known
<1>3. \A u \in Known : u \in Known' /\ latest'[u] >= latest[u]
  BY DEF EntryInv, EntryType, Known
<1>4. Begun' /\ Asked'
  BY <1>2, <1>3, LatestGrows
<1>5. Apart'
  BY <1>1 DEF EntryInv, Apart
<1>6. QED
  BY <1>2, <1>4, <1>5

LEMMA OneEntryStep ==
  ASSUME EntryInv, NEW e \in Entries, UnpublishEntry(e) \/ ChangeType(e)
  PROVE  EntryInv'
<1>1. entry \in [Entries -> EntryRow] /\ AtOnce /\ UNCHANGED <<latest, started, waived, patched>>
  BY DEF EntryInv, EntryType, UnpublishEntry, ChangeType
<1>2. PICK row \in EntryRow :
        /\ entry' = [entry EXCEPT ![e] = row] /\ row.template = entry[e].template
        /\ row.notebook /\ row.status = "published" => Usable(e)
  <2>1. CASE UnpublishEntry(e)
    <3>1. [entry[e] EXCEPT !.status = "draft"] \in EntryRow
      BY <1>1 DEF EntryRow
    <3>2. entry' = [entry EXCEPT ![e] = [entry[e] EXCEPT !.status = "draft"]]
      BY <1>1, <2>1 DEF UnpublishEntry
    <3>3. QED
      BY <1>1, <3>1, <3>2 DEF EntryRow
  <2>2. CASE ChangeType(e)
    <3>1. [entry[e] EXCEPT !.notebook = ~@] \in EntryRow
      BY <1>1 DEF EntryRow
    <3>2. entry' = [entry EXCEPT ![e] = [entry[e] EXCEPT !.notebook = ~@]]
      BY <1>1, <2>2 DEF ChangeType
    <3>3. ~entry[e].notebook /\ entry[e].status = "published" => Usable(e)
      BY <2>2 DEF ChangeType
    <3>4. QED
      BY <1>1, <3>1, <3>2, <3>3 DEF EntryRow
  <2>3. QED
    BY <2>1, <2>2
<1>3. clerk' = clerk /\ entangled' \in BOOLEAN
      /\ (~entangled' => ~entangled /\ \A c \in Clerks : clerk'[c] = AtEase)
  BY <1>1, AtOnceWrite
<1>4. row.template # Unbound => Exists(row.template)
  BY <1>2 DEF EntryInv, EntryType
<1>5. EntryType' /\ Begun' /\ Asked' /\ Apart'
  BY <1>1, <1>2, <1>3, <1>4, EntryChange DEF EntryInv, EntryType
<1>6. ShownUsable => ShownUsable'
  BY <1>1, <1>2 DEF ShownUsable, Shown, Usable, Versioned, Exists
<1>7. QED
  BY <1>3, <1>5, <1>6, EntryWrite

LEMMA EndPublishStep ==
  ASSUME EntryInv, NEW c \in Clerks, EndPublish(c)
  PROVE  EntryInv'
<1> DEFINE e == clerk[c].e
<1>1. /\ Writes(c, "publish") /\ entry' = [entry EXCEPT ![e].status = "published"] /\ waived' = waived \ {e}
      /\ UNCHANGED <<latest, started, published, patched>>
      /\ entry \in [Entries -> EntryRow]
  BY DEF EndPublish, EntryInv, EntryType
<1>2. /\ clerk[c].what = "publish" /\ e \in Entries
      /\ clerk' \in [Clerks -> ClerkRow] /\ entangled' \in BOOLEAN
      /\ \A d \in Clerks : clerk'[d] = AtEase \/ clerk'[d] = clerk[d]
      /\ ~entangled' => ~entangled /\ \A d \in Clerks : clerk'[d] = AtEase
  BY <1>1, ClerkWrites
<1>3. StillSo => (entry[e].notebook => Usable(e))
  BY <1>2 DEF StillSo
<1> HIDE DEF e
<1>4. PICK row \in EntryRow : /\ entry' = [entry EXCEPT ![e] = row] /\ row.template = entry[e].template
                              /\ row.notebook = entry[e].notebook
  <2>1. [entry[e] EXCEPT !.status = "published"] \in EntryRow
    BY <1>1, <1>2 DEF EntryRow
  <2>2. entry' = [entry EXCEPT ![e] = [entry[e] EXCEPT !.status = "published"]]
    BY <1>1
  <2>3. QED
    BY <1>1, <1>2, <2>1, <2>2 DEF EntryRow
<1>5. row.template # Unbound => Exists(row.template)
  BY <1>2, <1>4 DEF EntryInv, EntryType
<1>6. EntryType' /\ Begun' /\ Asked' /\ Apart'
  BY <1>1, <1>2, <1>4, <1>5, EntryChange DEF EntryInv, EntryType
<1>7. ShownUsable /\ StillSo => ShownUsable'
  BY <1>1, <1>2, <1>3, <1>4 DEF ShownUsable, Shown, Usable, Versioned, Exists
<1>8. QED
  BY <1>2, <1>6, <1>7, EntryWrite

LEMMA PatchStep ==
  ASSUME EntryInv, NEW e \in Entries, NEW t \in Templates \cup {Unbound}, PatchModule(e, t)
  PROVE  EntryInv'
<1>1. /\ t = Unbound \/ Exists(t)
      /\ entry' = [entry EXCEPT ![e].template = t] /\ Waive(t, e) /\ patched' = patched \cup {e}
      /\ AtOnce /\ UNCHANGED <<latest, started, published>>
      /\ entry \in [Entries -> EntryRow]
  BY DEF PatchModule, EntryInv, EntryType
<1>2. PICK row \in EntryRow : /\ entry' = [entry EXCEPT ![e] = row] /\ row.template = t
                              /\ row.notebook = entry[e].notebook /\ row.status = entry[e].status
  <2>1. [entry[e] EXCEPT !.template = t] \in EntryRow
    BY <1>1 DEF EntryRow
  <2>2. entry' = [entry EXCEPT ![e] = [entry[e] EXCEPT !.template = t]]
    BY <1>1
  <2>3. QED
    BY <1>1, <2>1, <2>2 DEF EntryRow
<1>3. clerk' = clerk /\ entangled' \in BOOLEAN
      /\ (~entangled' => ~entangled /\ \A c \in Clerks : clerk'[c] = AtEase)
  BY <1>1, AtOnceWrite
<1>4. EntryType' /\ Begun' /\ Asked' /\ Apart'
  BY <1>1, <1>2, <1>3, EntryChange DEF EntryInv, EntryType
<1>5. waived' = IF Shown(e) /\ ~Versioned(t) THEN waived \cup {e} ELSE waived \ {e}
  BY <1>1, EntryAssumption DEF Waive, Unbound, Entries
<1>6. ShownUsable => ShownUsable'
  BY <1>1, <1>2, <1>5 DEF ShownUsable, Shown, Usable, Versioned, Exists
<1>7. QED
  BY <1>3, <1>4, <1>6, EntryWrite

LEMMA PublishVersionStep ==
  ASSUME EntryInv, NEW t \in Templates, PublishVersion(t)
  PROVE  EntryInv'
<1>1. /\ Exists(t) /\ latest' = [latest EXCEPT ![t] = @ + 1] /\ AtOnce
      /\ UNCHANGED <<entry, started, published, waived, patched>>
      /\ latest \in [Known -> Nat] /\ t \in Known
  BY DEF PublishVersion, Exists, EntryInv, EntryType, Known
<1>2. clerk' = clerk /\ entangled' \in BOOLEAN
      /\ (~entangled' => ~entangled /\ \A c \in Clerks : clerk'[c] = AtEase)
  BY <1>1, AtOnceWrite
<1>3. Known' = Known /\ latest' \in [Known -> Nat] /\ \A u \in Known : latest'[u] >= latest[u]
  BY <1>1 DEF Known
<1>4. EntryType'
  BY <1>1, <1>2, <1>3 DEF EntryInv, EntryType, Exists, Known
<1>5. Begun' /\ Asked' /\ \A u : (Versioned(u) => Versioned(u)') /\ (Exists(u) => Exists(u)')
  BY <1>1, <1>2, <1>3, <1>4, LatestGrows
<1>6. Apart' /\ (ShownUsable => ShownUsable')
  BY <1>1, <1>5 DEF EntryInv, Apart, ShownUsable, Shown, Usable
<1>7. QED
  BY <1>2, <1>4, <1>5, <1>6, EntryWrite

LEMMA EndStartStep ==
  ASSUME EntryInv, NEW c \in Clerks, EndStartRecord(c)
  PROVE  EntryInv'
<1> DEFINE r == clerk[c]
           new == [template |-> r.t, version |-> r.version]
<1>1. /\ Writes(c, "start")
      /\ started' = IF started[r.e] = NotStarted THEN [started EXCEPT ![r.e] = new] ELSE started
      /\ UNCHANGED <<entry, latest, published, waived, patched>>
  BY DEF EndStartRecord
<1>2. /\ clerk[c].what = "start" /\ r.e \in Entries
      /\ clerk' \in [Clerks -> ClerkRow] /\ entangled' \in BOOLEAN
      /\ \A d \in Clerks : clerk'[d] = AtEase \/ clerk'[d] = clerk[d]
      /\ ~entangled' => ~entangled /\ \A d \in Clerks : clerk'[d] = AtEase
  BY <1>1, ClerkWrites
<1>3. Real(r.t, r.version) /\ r \in ClerkRow /\ started \in [Entries -> StartRow]
  BY <1>2 DEF EntryInv, EntryType, Asked
<1>4. new \in StartRow /\ Real(new.template, new.version)
  BY <1>3 DEF StartRow, ClerkRow
<1> HIDE DEF new, r
<1>5. started' \in [Entries -> StartRow]
      /\ \A e \in Entries : started'[e] = started[e] \/ started'[e] = new
  BY <1>1, <1>2, <1>3, <1>4
<1>6. EntryType'
  BY <1>1, <1>2, <1>5 DEF EntryInv, EntryType, Exists, Known
<1>7. Begun'
  <2>1. \A e \in Entries : started'[e] # NotStarted =>
          started'[e].template \in DOMAIN latest /\ started'[e].version \in 1..latest[started'[e].template]
    BY <1>4, <1>5 DEF EntryInv, Begun, Real, Exists
  <2>2. QED
    BY <1>1, <2>1 DEF Begun, Real, Exists
<1>8. Asked' /\ Apart'
  <2>1. Asked'
    BY <1>1, <1>2, Eased DEF EntryInv, Asked, Real, Exists
  <2>2. QED
    BY <1>1, <2>1 DEF EntryInv, Apart
<1>9. ShownUsable => ShownUsable'
  BY <1>1 DEF ShownUsable, Shown, Usable, Versioned, Exists
<1>10. QED
  BY <1>2, <1>6, <1>7, <1>8, <1>9, EntryWrite

\* Steps that touch neither entries nor versions.
LEMMA EntryFrame ==
  ASSUME EntryInv, UNCHANGED <<entry, latest, started, clerk, waived, patched>>,
         entangled' \in BOOLEAN, ~entangled' => ~entangled
  PROVE  EntryInv'
<1>1. EntryType' /\ Begun' /\ Asked' /\ Apart'
  BY DEF EntryInv, EntryType, Begun, Asked, Apart, Real, Exists, Known
<1>2. ~entangled' => ShownUsable' /\ StillSo'
  BY DEF EntryInv, ShownUsable, StillSo, Shown, Usable, Versioned, Exists, Hosts
<1>3. QED
  BY <1>1, <1>2 DEF EntryInv

\* Entries, versions and what requests have read agree: a template that was not
\* patched in serves one entry, a version that was read exists, and, unless a
\* request wrote while another was under way, whoever writes still finds what it read.
THEOREM EntriesInvariant == EntrySpec => []EntryInv
<1>1. EntryInit => EntryInv
  <2>1. SUFFICES ASSUME EntryInit PROVE EntryInv
    OBVIOUS
  <2>2. EntryType
    <3>1. clerk \in [Clerks -> ClerkRow] /\ started \in [Entries -> StartRow]
      BY <2>1, Eased DEF EntryInit, StartRow, NotStarted
    <3>2. Known = {} /\ latest \in [Known -> Nat]
      BY <2>1 DEF EntryInit, Known
    <3>3. entry \in [Entries -> EntryRow] /\ \A e \in Entries : entry[e].template = Unbound
      BY <2>1 DEF EntryInit, EntryRow
    <3>4. QED
      BY <2>1, <3>1, <3>2, <3>3 DEF EntryInit, EntryType
  <2>3. Begun /\ Asked /\ Apart
    BY <2>1, Eased DEF EntryInit, Begun, Asked, Apart
  <2>4. ShownUsable /\ StillSo
    BY <2>1, Eased DEF EntryInit, ShownUsable, StillSo, Shown
  <2>5. QED
    BY <2>2, <2>3, <2>4 DEF EntryInv
<1>2. EntryInv /\ [EntryNext]_entryVars => EntryInv'
  <2>1. SUFFICES ASSUME EntryInv, [EntryNext]_entryVars PROVE EntryInv'
    OBVIOUS
  <2>2. CASE \E c \in Clerks : Teach(c)
    BY <2>1, <2>2, ReadStep
  <2>3. CASE \E c \in Clerks : EndBindTemplate(c) \/ EndPublish(c) \/ EndStartRecord(c)
    BY <2>1, <2>3, EndBindStep, EndPublishStep, EndStartStep
  <2>4. CASE \E t \in Templates : PublishVersion(t) \/ \E e \in Entries \cup {Unbound} : CreateTemplate(t, e)
    BY <2>1, <2>4, PublishVersionStep, CreateTemplateStep
  <2>5. CASE \E e \in Entries : UnpublishEntry(e) \/ ChangeType(e)
                                \/ \E t \in Templates \cup {Unbound} : PatchModule(e, t)
    BY <2>1, <2>5, OneEntryStep, PatchStep
  <2>6. CASE PublishCourse
    <3>1. AtOnce /\ UNCHANGED <<entry, latest, started, waived, patched>>
      BY <2>6 DEF PublishCourse
    <3>2. QED
      BY <2>1, <3>1, AtOnceWrite, EntryFrame
  <2>7. CASE UNCHANGED entryVars
    BY <2>1, <2>7, EntryFrame DEF entryVars, EntryInv, EntryType
  <2>8. QED
    BY <2>1, <2>2, <2>3, <2>4, <2>5, <2>6, <2>7 DEF EntryNext
<1>3. QED
  BY <1>1, <1>2, PTL DEF EntrySpec

(* Whatever the order of binding, rebinding, publishing and changes of     *)
(* type, a published Notebook has a version to start from, unless one      *)
(* without was bound or patched to it while it was published or a request  *)
(* wrote while another was under way; a template serves one entry, and a   *)
(* student goes on in what was one of its versions (studio_service._bind,  *)
(* api/experiments.py, api/courses.py).                                    *)
THEOREM EntriesAreSound == EntrySpec => []EntriesSound
<1>1. EntryInv => EntriesSound
  <2>1. SUFFICES ASSUME EntryInv PROVE EntriesSound
    OBVIOUS
  <2>2. ShownIsUsable
    BY <2>1 DEF EntryInv, ShownIsUsable, ShownUsable
  <2>3. OneHost
    <3>1. SUFFICES ASSUME NEW t \in Templates PROVE Cardinality(Hosts(t) \ patched) <= 1
      BY DEF OneHost
    <3>2. \A e, f \in Hosts(t) \ patched : e = f
      BY <2>1, EntryAssumption DEF EntryInv, Apart, Hosts, Unbound
    <3>3. CASE Hosts(t) \ patched = {}
      BY <3>3, FS_EmptySet
    <3>4. CASE \E e : e \in Hosts(t) \ patched
      <4>1. PICK e : e \in Hosts(t) \ patched
        BY <3>4
      <4>2. Hosts(t) \ patched = {e}
        BY <3>2, <4>1
      <4>3. QED
        BY <4>2, FS_Singleton
    <3>5. QED
      BY <3>3, <3>4
  <2>4. StartedOnVersion
    BY <2>1 DEF EntryInv, Begun, StartedOnVersion, Real
  <2>5. QED
    BY <2>2, <2>3, <2>4 DEF EntriesSound
<1>2. QED
  BY <1>1, EntriesInvariant, PTL

-----------------------------------------------------------------------------
(* AuthSession                                                              *)

AuthSpec == AuthInit /\ [][AuthNext]_authVars

TokenRow == [user : Users, sv : Nat, chain : Nat]
Call == [kind : {"login", "refresh", "restore", "logout"}, stage : {"sent", "taken", "answered"},
         user : Users \cup {NoUser}, access : Nat, jar : Nat, gen : Nat, sv : Nat, token : Nat,
         orphan : BOOLEAN]
UsedRow == [clicks : Nat, drops : Nat, bumps : Nat]
TabRow == [access : Nat, user : Users \cup {NoUser}, gen : Nat, left : BOOLEAN]

\* What a request carries.
Carried(r) ==
  /\ {r.jar, r.access} \subseteq Tokens \cup {0}
  /\ r.kind = "login" => r.user \in Users /\ r.stage # "taken" /\ r.jar = 0
  /\ r.kind = "logout" => ~r.orphan /\ r.stage # "taken"
  /\ r.stage = "taken" => r.jar \in Tokens /\ r.user = tok[r.jar].user /\ r.sv = tok[r.jar].sv
  /\ r.stage = "answered" => ~r.orphan /\ r.jar = 0
  /\ r.stage = "answered" /\ r.kind # "logout" =>
       r.token \in Tokens \cup {0} /\ (r.token # 0 => r.user = tok[r.token].user)
  /\ r.stage = "answered" /\ r.kind = "login" => r.token # 0
  /\ r.kind \in {"refresh", "restore"} /\ ~r.orphan => r.gen <= tab.gen

AuthType ==
  /\ tok \in Seq(TokenRow) /\ live \in SUBSET Tokens /\ version \in [Users -> Nat]
  /\ cookie \in Tokens \cup {0} /\ tab \in TabRow /\ tab.access \in Tokens \cup {0}
  /\ net \in SUBSET Call /\ \A r \in net : Carried(r)
  /\ used \in UsedRow

\* A chain is named after its first token and keeps that one's version; of a chain one token
\* is live, or one refresh is about to issue the next.
Taken(r) == r.stage = "taken"
Chains ==
  /\ \A t \in Tokens : tok[t].chain \in 1..t /\ tok[tok[t].chain].sv = tok[t].sv
  /\ SingleUse
  /\ \A r \in net : Taken(r) => \A t \in live : tok[r.jar].chain # tok[t].chain
  /\ \A r, s \in net : Taken(r) /\ Taken(s) /\ tok[r.jar].chain = tok[s.jar].chain => r = s

\* Who is listened to: a login alone, refreshes in a session, restores out of one, and logouts
\* only after the session has been left.
Heard(r) == r \in net /\ ~r.orphan
Listening ==
  /\ tab.left => tab.access = 0
  /\ \A r \in net : Heard(r) =>
       /\ r.kind = "login" => tab.access = 0 /\ \A s \in net : Heard(s) => s = r
       /\ r.kind = "refresh" => /\ IF tab.access # 0 THEN r.gen = tab.gen ELSE tab.left /\ r.gen < tab.gen
                                /\ \A s \in net : Heard(s) /\ s.kind = "refresh" => s = r
       /\ r.kind = "restore" => /\ tab.access = 0 /\ (~tab.left => r.gen = tab.gen)
                                /\ \A s \in net : Heard(s) /\ s.kind = "restore" => s = r
       /\ r.kind = "logout" => tab.left

\* A new token is nowhere but in the answer that brings it.
Brings(r) == r.stage = "answered" /\ r.kind # "logout" /\ r.token # 0
Unseen == \A r \in net : Brings(r) =>
  /\ r.token \in live /\ r.token # cookie
  /\ \A s \in net : s.jar # r.token /\ (Brings(s) /\ s.token = r.token => s = r)

\* After a logout, a cookie that is still good is about to be revoked, and a restore of the
\* page as it is now has no good cookie.
Revokes(r) == r.kind = "logout" /\ r.stage = "sent"
Leaving ==
  /\ \A r \in net : Revokes(r) /\ r.jar \in live =>
       r.access = 0 \/ tok[r.access].user = tok[r.jar].user
  /\ tab.left /\ cookie \in live => \E r \in net : Revokes(r) /\ r.jar = cookie
  /\ tab.left => \A r \in net : r.kind = "restore" /\ Heard(r) /\ r.gen = tab.gen =>
       \/ r.stage = "sent" /\ r.jar \notin live
       \/ r.stage = "answered" /\ r.token = 0

\* In a session, the cookie and what a refresh brings are the user's; and with no answer lost
\* the cookie is the one that came with the access token, and nobody else can use it up.
InSession == tab.access # 0 =>
  /\ OneUser
  /\ \A r \in net : Heard(r) /\ r.kind = "refresh" =>
       /\ r.jar \in live => tok[r.jar].user = tab.user
       /\ Taken(r) \/ Brings(r) => r.user = tab.user
  /\ used.drops = 0 =>
       /\ cookie = tab.access
       /\ \A r \in net : r.orphan => r.jar # cookie
       /\ cookie \in live \/ \E r \in net : Heard(r) /\ r.kind = "refresh"

TokensInv == AuthType /\ Chains
PageInv == Listening /\ Unseen /\ Leaving /\ InSession
AuthInv == TokensInv /\ PageInv

\* What a step that issues nothing leaves as it was.
LEMMA TokensKept ==
  ASSUME TokensInv, tok' = tok, live' \in SUBSET live, version' \in [Users -> Nat],
         cookie' \in Tokens \cup {0}, tab' \in TabRow, tab'.access \in Tokens \cup {0},
         tab.gen <= tab'.gen, used' \in UsedRow,
         NEW new, net' \subseteq net \cup new,
         \A k \in new : k \in Call /\ ~Taken(k) /\ Carried(k)'
  PROVE  TokensInv'
<1>1. Tokens' = Tokens
  BY DEF Tokens
<1>2. ASSUME NEW r \in net PROVE Carried(r)'
  <2>1. Carried(r) /\ r.gen \in Nat /\ tab.gen \in Nat /\ tab'.gen \in Nat
    BY DEF TokensInv, AuthType, Call, TabRow
  <2>2. r.gen <= tab.gen => r.gen <= tab'.gen
    BY <2>1
  <2>3. QED
    BY <1>1, <2>1, <2>2 DEF Carried
<1>3. AuthType'
  BY <1>1, <1>2 DEF TokensInv, AuthType
<1>4. Chains'
  BY <1>1 DEF TokensInv, Chains, SingleUse, Taken
<1>5. QED
  BY <1>3, <1>4 DEF TokensInv

LEMMA UsedUp ==
  ASSUME used \in UsedRow, NEW max
  PROVE  /\ Use("clicks", max) => used' \in UsedRow /\ used'.drops = used.drops
         /\ Use("bumps", max) => used' \in UsedRow /\ used'.drops = used.drops
         /\ Use("drops", max) => used' \in UsedRow /\ used'.drops # 0
<1>1. ASSUME Use("clicks", max) PROVE used' \in UsedRow /\ used'.drops = used.drops
  BY <1>1 DEF Use, UsedRow
<1>2. ASSUME Use("bumps", max) PROVE used' \in UsedRow /\ used'.drops = used.drops
  BY <1>2 DEF Use, UsedRow
<1>3. ASSUME Use("drops", max) PROVE used' \in UsedRow /\ used'.drops # 0
  BY <1>3 DEF Use, UsedRow
<1>4. QED
  BY <1>1, <1>2, <1>3

\* An answer.
LEMMA Answered ==
  ASSUME NEW r \in Call, NEW token \in Nat
  PROVE  /\ Answer(r, token) \in Call /\ Answer(r, token).kind = r.kind
         /\ Answer(r, token).stage = "answered" /\ Answer(r, token).user = r.user
         /\ Answer(r, token).access = 0 /\ Answer(r, token).jar = 0 /\ Answer(r, token).gen = r.gen
         /\ Answer(r, token).token = token /\ Answer(r, token).orphan = r.orphan
BY DEF Answer, Call

LEMMA TokensAre ==
  ASSUME TokensInv
  PROVE  /\ Len(tok) \in Nat /\ Tokens = 1..Len(tok) /\ Tokens \subseteq Nat /\ 0 \notin Tokens
         /\ \A t \in Tokens : tok[t] \in TokenRow /\ tok[t].user \in Users /\ tok[t].sv \in Nat
         /\ cookie \in Nat /\ tab.access \in Nat /\ tab.gen \in Nat /\ 0 \notin live
         /\ \A r \in net : r \in Call /\ Carried(r)
         /\ used \in UsedRow /\ tab \in TabRow
<1>1. tok \in Seq(TokenRow) /\ tab \in TabRow /\ used \in UsedRow
  BY DEF TokensInv, AuthType
<1>2. Len(tok) \in Nat /\ Tokens = 1..Len(tok)
  BY <1>1 DEF Tokens
<1>3. Tokens \subseteq Nat /\ 0 \notin Tokens
  BY <1>2
<1>4. \A t \in Tokens : tok[t] \in TokenRow
  BY <1>1, <1>2
<1>5. \A t \in Tokens : tok[t].user \in Users /\ tok[t].sv \in Nat
  BY <1>4 DEF TokenRow
<1>6. /\ cookie \in Nat /\ tab.access \in Nat /\ tab.gen \in Nat /\ 0 \notin live
      /\ \A r \in net : r \in Call /\ Carried(r)
  BY <1>1, <1>3 DEF TokensInv, AuthType, TabRow
<1>7. QED
  BY <1>1, <1>2, <1>3, <1>4, <1>5, <1>6

LEMMA Forgets ==
  ASSUME TokensInv
  PROVE  /\ Forgotten \in TabRow /\ Forgotten.access = 0 /\ Forgotten.gen = tab.gen + 1
         /\ Forgotten.left = TRUE /\ tab.gen < Forgotten.gen
<1>1. PICK g \in Nat : g = tab.gen + 1
  BY TokensAre
<1>2. LoggedOut \in TabRow /\ LoggedOut.access = 0
  BY DEF LoggedOut, TabRow
<1>3. Forgotten = [LoggedOut EXCEPT !.gen = g, !.left = TRUE]
  BY <1>1 DEF Forgotten
<1> HIDE DEF LoggedOut
<1>4. /\ Forgotten \in TabRow /\ Forgotten.access = 0 /\ Forgotten.gen = g /\ Forgotten.left = TRUE
  BY <1>2, <1>3 DEF TabRow
<1>5. QED
  BY <1>1, <1>4, TokensAre

\* The page hears an answer.
LEMMA DeliveredTokens ==
  ASSUME TokensInv, NEW r \in net, Deliver(r)
  PROVE  TokensInv'
<1> USE TokensAre
<1>1. /\ r \in Call /\ r.stage = "answered" /\ UNCHANGED <<tok, live, version, used>>
      /\ r.kind # "logout" => r.token \in Tokens \cup {0} /\ (r.token # 0 => r.user = tok[r.token].user)
      /\ r.token \in Nat
  BY DEF Deliver, LoginDone, RefreshDone, RestoreDone, LateAnswer, SessionRefused, LogoutDone, Here,
         Carried, Call
<1>2. Tokens' = Tokens
  BY <1>1 DEF Tokens
<1>3. ASSUME NEW k, k \in Call, k.kind = "logout", k.stage = "sent", k.orphan = FALSE,
             k.jar \in Tokens \cup {0}, k.access \in Tokens \cup {0}
      PROVE  k \in Call /\ ~Taken(k) /\ Carried(k)'
  BY <1>2, <1>3 DEF Carried, Taken
<1>4. ASSUME cookie' \in Tokens \cup {0}, tab' \in TabRow, tab'.access \in Tokens \cup {0},
             tab.gen <= tab'.gen,
             \/ net' \subseteq net
             \/ \E access, jar \in Tokens \cup {0} : net' \subseteq net \cup {LogoutRequest(access, jar)}
      PROVE  TokensInv'
  <2>1. CASE net' \subseteq net
    <3> DEFINE new == {}
    <3>1. net' \subseteq net \cup new /\ \A i \in new : i \in Call /\ ~Taken(i) /\ Carried(i)'
      BY <2>1
    <3> HIDE DEF new
    <3>2. QED
      BY <1>1, <1>4, <3>1, TokensKept DEF TokensInv, AuthType
  <2>2. ASSUME NEW access \in Tokens \cup {0}, NEW jar \in Tokens \cup {0},
               net' \subseteq net \cup {LogoutRequest(access, jar)}
        PROVE  TokensInv'
    <3> DEFINE k == LogoutRequest(access, jar)
               new == {k}
    <3>1. /\ k \in Call /\ k.kind = "logout" /\ k.stage = "sent" /\ k.orphan = FALSE
          /\ k.jar = jar /\ k.access = access
      BY DEF Request, Call, LogoutRequest
    <3> HIDE DEF k
    <3>2. \A i \in new : i \in Call /\ ~Taken(i) /\ Carried(i)'
      BY <1>3, <3>1
    <3>3. net' \subseteq net \cup new
      BY <2>2 DEF k
    <3> HIDE DEF new
    <3>4. QED
      BY <1>1, <1>4, <3>2, <3>3, TokensKept DEF TokensInv, AuthType
  <2>3. QED
    BY <1>4, <2>1, <2>2
<1>5. CASE LoginDone(r)
  <2>1. PICK g \in Nat : g = tab.gen + 1
    OBVIOUS
  <2>2. tab' = [access |-> r.token, user |-> r.user, gen |-> g, left |-> FALSE]
    BY <1>5, <2>1 DEF LoginDone
  <2>3. tab' \in TabRow /\ tab'.access = r.token /\ tab'.gen = g
    BY <1>1, <2>1, <2>2 DEF TabRow, Call
  <2>4. QED
    BY <1>1, <1>4, <1>5, <2>1, <2>3 DEF LoginDone
<1>6. CASE RefreshDone(r) \/ RestoreDone(r)
  <2>1. /\ r.kind # "logout" /\ net' \subseteq net /\ cookie' = r.token
        /\ \/ tab' = [tab EXCEPT !.access = r.token]
           \/ tab' = [tab EXCEPT !.access = r.token, !.user = r.user]
    BY <1>6 DEF RefreshDone, RestoreDone
  <2>2. tab' \in TabRow /\ tab'.access = r.token /\ tab'.gen = tab.gen
    BY <1>1, <2>1 DEF TabRow, Call
  <2>3. QED
    BY <1>1, <1>4, <2>1, <2>2
<1>7. CASE LateAnswer(r)
  <2>1. /\ r.token \in Tokens /\ cookie' = r.token /\ UNCHANGED tab
        /\ net' \subseteq net \cup {LogoutRequest(r.token, r.token)}
    BY <1>1, <1>7 DEF LateAnswer
  <2>2. QED
    BY <1>4, <2>1 DEF TokensInv, AuthType
<1>8. CASE SessionRefused(r)
  <2>1. UNCHANGED cookie
    BY <1>8 DEF SessionRefused
  <2>2. CASE tab' = Forgotten /\ net' = (net \ {r}) \cup {LogoutRequest(tab.access, cookie)}
    <3>1. tab' \in TabRow /\ tab'.access \in Tokens \cup {0} /\ tab.gen <= tab'.gen
      BY <2>2, Forgets
    <3>2. \E access, jar \in Tokens \cup {0} : net' \subseteq net \cup {LogoutRequest(access, jar)}
      BY <2>2 DEF TokensInv, AuthType
    <3>3. QED
      BY <1>4, <2>1, <3>1, <3>2 DEF TokensInv, AuthType
  <2>3. CASE net' = net \ {r} /\ UNCHANGED tab
    BY <1>4, <2>1, <2>3 DEF TokensInv, AuthType
  <2>4. QED
    BY <1>8, <2>2, <2>3 DEF SessionRefused
<1>9. CASE LogoutDone(r)
  BY <1>4, <1>9 DEF LogoutDone, TokensInv, AuthType
<1>10. QED
  BY <1>5, <1>6, <1>7, <1>8, <1>9 DEF Deliver

-----------------------------------------------------------------------------
(* The tokens: whatever the page does, a chain has one that can be used.   *)

LEMMA Unchanged ==
  ASSUME TokensInv
  PROVE  /\ live \in SUBSET live /\ version \in [Users -> Nat] /\ cookie \in Tokens \cup {0}
         /\ tab \in TabRow /\ tab.access \in Tokens \cup {0} /\ tab.gen <= tab.gen /\ used \in UsedRow
BY TokensAre DEF TokensInv, AuthType

\* The page sends requests, and hears answers.
LEMMA PageTokens ==
  ASSUME TokensInv,
         \/ Refresh \/ Restore \/ Logout \/ \E u \in Users : Login(u) \/ Bump(u)
         \/ \E r \in net : Deliver(r)
  PROVE  TokensInv'
<1> USE TokensAre
<1>1. CASE \E u \in Users : Login(u)
  <2>1. PICK u \in Users : Login(u)
    BY <1>1
  <2> DEFINE k == Request("login", u, 0, 0)
             new == {k}
  <2>2. k \in Call /\ k.stage = "sent" /\ k.kind = "login" /\ k.user = u /\ k.jar = 0 /\ k.access = 0
    BY DEF Request, Call
  <2>3. UNCHANGED <<tok, live, version, cookie, tab, used>> /\ net' = net \cup new
    BY <2>1 DEF Login
  <2> HIDE DEF k
  <2>4. \A i \in new : i \in Call /\ ~Taken(i) /\ Carried(i)'
    BY <2>2, <2>3 DEF Carried, Taken
  <2> HIDE DEF new
  <2>5. QED
    BY <2>3, <2>4, Unchanged, TokensKept
<1>2. CASE Refresh \/ Restore
  <2>1. PICK kind \in {"refresh", "restore"} : net' = net \cup {Request(kind, NoUser, 0, cookie)}
    BY <1>2 DEF Refresh, Restore
  <2> DEFINE k == Request(kind, NoUser, 0, cookie)
             new == {k}
  <2>2. /\ k \in Call /\ k.stage = "sent" /\ k.kind = kind /\ k.jar = cookie /\ k.access = 0 /\ k.gen = tab.gen
    BY DEF Request, Call, TokensInv, AuthType
  <2>3. UNCHANGED <<tok, live, version, cookie, tab, used>> /\ net' = net \cup new
    BY <1>2, <2>1 DEF Refresh, Restore
  <2> HIDE DEF k
  <2>4. Tokens' = Tokens
    BY <2>3 DEF Tokens
  <2>5. \A i \in new : i \in Call /\ ~Taken(i) /\ Carried(i)'
    BY <2>2, <2>3, <2>4 DEF Carried, Taken, TokensInv, AuthType
  <2> HIDE DEF new
  <2>6. QED
    BY <2>3, <2>5, Unchanged, TokensKept
<1>3. CASE Logout
  <2> DEFINE k == LogoutRequest(tab.access, cookie)
             new == {k}
  <2>1. k \in Call /\ k.stage = "sent" /\ k.kind = "logout" /\ k.jar = cookie /\ k.access = tab.access /\ k.orphan = FALSE
    BY DEF Request, Call, LogoutRequest, TokensInv, AuthType
  <2>2. UNCHANGED <<tok, live, version, cookie>> /\ net' = net \cup new /\ tab' = Forgotten
    BY <1>3 DEF Logout
  <2> HIDE DEF k
  <2>3. Tokens' = Tokens
    BY <2>2 DEF Tokens
  <2>4. \A i \in new : i \in Call /\ ~Taken(i) /\ Carried(i)'
    BY <2>1, <2>2, <2>3 DEF Carried, Taken, TokensInv, AuthType
  <2>5. tab' \in TabRow /\ tab'.access = 0 /\ tab.gen <= tab'.gen
    BY <2>2, Forgets
  <2>6. used' \in UsedRow
    BY <1>3, UsedUp DEF Logout
  <2> HIDE DEF new
  <2>7. QED
    BY <2>2, <2>4, <2>5, <2>6, TokensKept DEF TokensInv, AuthType
<1>4. CASE \E u \in Users : Bump(u)
  <2>1. PICK u \in Users : Bump(u)
    BY <1>4
  <2>2. UNCHANGED <<tok, live, cookie, tab, net>> /\ version' = [version EXCEPT ![u] = version[u] + 1]
    BY <2>1 DEF Bump
  <2>3. version' \in [Users -> Nat]
    BY <2>2 DEF TokensInv, AuthType
  <2>4. used' \in UsedRow
    BY <2>1, UsedUp DEF Bump
  <2> DEFINE new == {}
  <2>5. net' \subseteq net \cup new /\ \A i \in new : i \in Call /\ ~Taken(i) /\ Carried(i)'
    BY <2>2
  <2> HIDE DEF new
  <2>6. QED
    BY <2>2, <2>3, <2>4, <2>5, Unchanged, TokensKept
<1>5. CASE \E r \in net : Deliver(r)
  BY <1>5, DeliveredTokens
<1>6. QED
  BY <1>1, <1>2, <1>3, <1>4, <1>5

\* Requests whose answers nobody waits for any more.
Deserted(r) == [r EXCEPT !.orphan = TRUE, !.gen = 0]

LEMMA DesertedIs ==
  ASSUME TokensInv, NEW r \in net, r.stage # "answered", r.kind # "logout"
  PROVE  /\ Deserted(r) \in Call /\ Deserted(r).stage = r.stage /\ Deserted(r).kind = r.kind
         /\ Deserted(r).jar = r.jar /\ Deserted(r).user = r.user /\ Deserted(r).token = r.token
         /\ Deserted(r).orphan = TRUE /\ Carried(Deserted(r))
<1>1. r \in Call /\ Carried(r)
  BY TokensAre
<1>2. /\ Deserted(r) \in Call /\ Deserted(r).stage = r.stage /\ Deserted(r).kind = r.kind
      /\ Deserted(r).jar = r.jar /\ Deserted(r).user = r.user /\ Deserted(r).token = r.token
      /\ Deserted(r).orphan = TRUE /\ Deserted(r).sv = r.sv /\ Deserted(r).access = r.access
  BY <1>1 DEF Deserted, Call
<1>3. Carried(Deserted(r))
  BY <1>1, <1>2 DEF Carried
<1>4. QED
  BY <1>2, <1>3

\* A step that leaves the tokens alone, and requests that are refreshed as they were.
LEMMA TokensResorted ==
  ASSUME TokensInv, UNCHANGED <<tok, live, version, cookie>>, tab' \in TabRow,
         tab'.access \in Tokens \cup {0}, used' \in UsedRow,
         \A k \in net' : /\ k \in Call /\ Carried(k)'
                         /\ Taken(k) => \E r \in net : Taken(r) /\ r.jar = k.jar,
         \A k, j \in net' : Taken(k) /\ Taken(j) /\ tok[k.jar].chain = tok[j.jar].chain => k = j
  PROVE  TokensInv'
<1>1. Tokens' = Tokens
  BY DEF Tokens
<1>2. AuthType'
  BY <1>1 DEF TokensInv, AuthType
<1>3. Chains'
  BY <1>1 DEF TokensInv, Chains, SingleUse, Taken
<1>4. QED
  BY <1>2, <1>3 DEF TokensInv

LEMMA ReloadTokens ==
  ASSUME TokensInv, Reload
  PROVE  TokensInv'
<1>1. /\ UNCHANGED <<tok, live, version, cookie>> /\ tab' = [LoggedOut EXCEPT !.left = tab.left]
      /\ net' = {Deserted(r) : r \in {q \in net : q.stage # "answered"}}
      /\ \A r \in net : r.kind # "logout"
  BY TokensAre DEF Reload, Deserted, HeardFrom, Carried
<1>2. tab' \in TabRow /\ tab'.access = 0
  <2>1. LoggedOut \in TabRow /\ LoggedOut.access = 0 /\ tab.left \in BOOLEAN
    BY TokensAre DEF LoggedOut, TabRow
  <2> HIDE DEF LoggedOut
  <2>2. QED
    BY <1>1, <2>1 DEF TabRow
<1>3. used' \in UsedRow
  BY TokensAre, UsedUp DEF Reload
<1>4. ASSUME NEW k \in net'
      PROVE  \E r \in net : k = Deserted(r) /\ r.stage # "answered" /\ r.kind # "logout"
  BY <1>1
<1>5. ASSUME NEW k \in net'
      PROVE  k \in Call /\ Carried(k)' /\ (Taken(k) => \E r \in net : Taken(r) /\ r.jar = k.jar)
  <2>1. PICK r \in net : k = Deserted(r) /\ r.stage # "answered" /\ r.kind # "logout"
    BY <1>4
  <2>2. k \in Call /\ Carried(k) /\ k.orphan = TRUE /\ k.jar = r.jar /\ k.stage = r.stage
    BY <2>1, DesertedIs
  <2>3. QED
    BY <1>1, <2>2 DEF Carried, Taken, Tokens
<1>6. ASSUME NEW k \in net', NEW j \in net', Taken(k), Taken(j), tok[k.jar].chain = tok[j.jar].chain
      PROVE  k = j
  <2>1. PICK r \in net : k = Deserted(r) /\ r.stage # "answered" /\ r.kind # "logout"
    BY <1>4
  <2>2. PICK s \in net : j = Deserted(s) /\ s.stage # "answered" /\ s.kind # "logout"
    BY <1>4
  <2>3. Taken(r) /\ Taken(s) /\ r.jar = k.jar /\ s.jar = j.jar
    BY <1>6, <2>1, <2>2, DesertedIs DEF Taken
  <2>4. r = s
    BY <1>6, <2>3 DEF TokensInv, Chains
  <2>5. QED
    BY <2>1, <2>2, <2>4
<1>7. QED
  BY <1>1, <1>2, <1>3, <1>5, <1>6, TokensResorted

LEMMA DropTokens ==
  ASSUME TokensInv, NEW r \in net, Drop(r)
  PROVE  TokensInv'
<1>1. /\ UNCHANGED <<tok, live, version, cookie, tab>> /\ r.kind # "logout"
      /\ \/ net' \subseteq net
         \/ net' = (net \ {r}) \cup {Deserted(r)} /\ r.stage # "answered"
  <2>1. Deserted(r).stage = r.stage /\ Deserted(r).orphan = TRUE
    BY TokensAre DEF Deserted, Call
  <2>2. QED
    BY <2>1 DEF Drop, Moved, Deserted
<1>2. used' \in UsedRow
  BY TokensAre, UsedUp DEF Drop
<1>3. CASE net' \subseteq net
  <2> DEFINE new == {}
  <2>1. net' \subseteq net \cup new /\ \A i \in new : i \in Call /\ ~Taken(i) /\ Carried(i)'
    BY <1>3
  <2> HIDE DEF new
  <2>2. QED
    BY <1>1, <1>2, <2>1, Unchanged, TokensKept
<1>4. CASE net' = (net \ {r}) \cup {Deserted(r)} /\ r.stage # "answered"
  <2>1. /\ Deserted(r) \in Call /\ Carried(Deserted(r)) /\ Deserted(r).jar = r.jar
        /\ Deserted(r).stage = r.stage
    BY <1>1, <1>4, DesertedIs
  <2>2. \A k \in net' : k \in Call /\ Carried(k)' /\ (Taken(k) => \E s \in net : Taken(s) /\ s.jar = k.jar)
    <3>1. \A k \in net' : k \in Call /\ Carried(k)
      BY <1>4, <2>1, TokensAre
    <3>2. QED
      BY <1>1, <1>4, <2>1, <3>1 DEF Carried, Taken, Tokens
  <2>3. \A k, j \in net' : Taken(k) /\ Taken(j) /\ tok[k.jar].chain = tok[j.jar].chain => k = j
    BY <1>4, <2>1 DEF TokensInv, Chains, Taken
  <2>4. QED
    BY <1>1, <1>2, <2>2, <2>3, Unchanged, TokensResorted
<1>5. QED
  BY <1>1, <1>3, <1>4

-----------------------------------------------------------------------------
(* What the server does with the tokens.                                   *)

LEMMA Grown ==
  ASSUME TokensInv, NEW row \in TokenRow, tok' = Append(tok, row)
  PROVE  /\ tok' \in Seq(TokenRow) /\ Tokens' = Tokens \cup {Len(tok) + 1} /\ Len(tok) + 1 \notin Tokens
         /\ \A t \in Tokens : tok'[t] = tok[t]
         /\ tok'[Len(tok) + 1] = row
<1>1. tok \in Seq(TokenRow) /\ Len(tok) \in Nat /\ Tokens = 1..Len(tok)
  BY TokensAre DEF TokensInv, AuthType
<1>2. tok' \in Seq(TokenRow) /\ Len(tok') = Len(tok) + 1
  BY <1>1
<1>3. Tokens' = 1..(Len(tok) + 1)
  BY <1>2 DEF Tokens
<1>4. \A t \in 1..Len(tok) : tok'[t] = tok[t]
  BY <1>1
<1>5. tok'[Len(tok) + 1] = row
  BY <1>1
<1>6. QED
  BY <1>1, <1>2, <1>3, <1>4, <1>5

\* The new token of a login begins a chain; that of a refresh continues the one whose token
\* was taken.
LEMMA IssueTokens ==
  ASSUME TokensInv, NEW r \in net, NEW row \in TokenRow,
         NEW n \in Nat, n = Len(tok) + 1, tok' \in Seq(TokenRow), Tokens' = Tokens \cup {n},
         n \notin Tokens, \A t \in Tokens : tok'[t] = tok[t], tok'[n] = row,
         live' = live \cup {n}, Moved(r, Answer(r, n)), UNCHANGED <<version, cookie, tab, used>>,
         r.kind # "logout", row.user = r.user,
         \/ row.chain = n
         \/ Taken(r) /\ row.chain = tok[r.jar].chain /\ row.sv = tok[r.jar].sv
  PROVE  TokensInv'
<1>1. /\ tok' \in Seq(TokenRow) /\ Tokens' = Tokens \cup {n} /\ n \notin Tokens
      /\ (\A t \in Tokens : tok'[t] = tok[t]) /\ tok'[n] = row /\ live' = live \cup {n}
  OBVIOUS
<1>2. /\ n \in Nat /\ n # 0 /\ (\A t \in Tokens : t < n) /\ Tokens = 1..Len(tok)
      /\ \A t \in Tokens : tok[t].chain \in Tokens /\ tok[t].chain \in 1..t
  <2>1. Len(tok) \in Nat /\ Tokens = 1..Len(tok) /\ \A t \in Tokens : tok[t].chain \in 1..t
    BY TokensAre DEF TokensInv, Chains
  <2>2. QED
    BY <2>1
<1>3. r \in Call /\ Carried(r) /\ \A s \in net : s \in Call /\ Carried(s)
  BY TokensAre
<1>4. PICK k : k = Answer(r, n)
  OBVIOUS
<1>5. /\ k \in Call /\ k.kind = r.kind /\ k.stage = "answered" /\ k.user = r.user /\ k.access = 0
      /\ k.jar = 0 /\ k.gen = r.gen /\ k.token = n /\ k.orphan = r.orphan
  BY <1>2, <1>3, <1>4, Answered
<1>6. net' = net \ {r} \/ (net' = (net \ {r}) \cup {k} /\ ~k.orphan)
  BY <1>4, <1>5 DEF Moved
<1>7. \A s \in net : Carried(s)'
  BY <1>1, <1>3 DEF Carried
<1>8. ~k.orphan => Carried(k)'
  BY <1>1, <1>2, <1>3, <1>5 DEF Carried
<1>9. AuthType'
  <2>1. net' \in SUBSET Call /\ \A s \in net' : Carried(s)'
    BY <1>3, <1>5, <1>6, <1>7, <1>8
  <2>2. live' \in SUBSET Tokens'
    BY <1>1 DEF TokensInv, AuthType
  <2>3. QED
    BY <1>1, <2>1, <2>2 DEF TokensInv, AuthType
<1>10. \A s \in net' : Taken(s) => s \in net /\ s # r /\ s.jar \in Tokens
  BY <1>3, <1>5, <1>6 DEF Taken, Carried
<1>11. /\ \A t \in Tokens : tok[tok[t].chain].sv = tok[t].sv
       /\ live \subseteq Tokens /\ (\A t, s \in live : tok[t].chain = tok[s].chain => t = s)
       /\ \A s \in net : Taken(s) => \A t \in live : tok[s.jar].chain # tok[t].chain
       /\ \A i, s \in net : Taken(i) /\ Taken(s) /\ tok[i.jar].chain = tok[s.jar].chain => i = s
  BY DEF TokensInv, AuthType, Chains, SingleUse
<1>12. CASE row.chain = n
  <2>1. \A t \in Tokens' : tok'[t].chain \in 1..t /\ tok'[tok'[t].chain].sv = tok'[t].sv
    BY <1>1, <1>2, <1>11, <1>12
  <2>2. \A t \in Tokens : tok[t].chain # n
    BY <1>1, <1>2
  <2>3. \A t, s \in live' : tok'[t].chain = tok'[s].chain => t = s
    BY <1>1, <1>11, <1>12, <2>2
  <2>4. \A s \in net' : Taken(s) => \A t \in live' : tok'[s.jar].chain # tok'[t].chain
    BY <1>1, <1>10, <1>11, <1>12, <2>2
  <2>5. \A i, s \in net' : Taken(i) /\ Taken(s) /\ tok'[i.jar].chain = tok'[s.jar].chain => i = s
    BY <1>1, <1>10 DEF TokensInv, Chains
  <2>6. QED
    BY <1>9, <2>1, <2>3, <2>4, <2>5 DEF TokensInv, Chains, SingleUse, Taken
<1>13. CASE Taken(r) /\ row.chain = tok[r.jar].chain /\ row.sv = tok[r.jar].sv
  <2>1. r.jar \in Tokens
    BY <1>3, <1>13 DEF Carried, Taken
  <2>2. \A t \in Tokens' : tok'[t].chain \in 1..t /\ tok'[tok'[t].chain].sv = tok'[t].sv
    <3>1. row.chain \in 1..n /\ row.chain \in Tokens /\ tok[row.chain].sv = row.sv
      BY <1>2, <1>13, <2>1 DEF TokensInv, Chains
    <3>2. QED
      BY <1>1, <1>2, <1>11, <3>1
  <2>3. \A t, s \in live' : tok'[t].chain = tok'[s].chain => t = s
    BY <1>1, <1>11, <1>13
  <2>4. \A s \in net' : Taken(s) => \A t \in live' : tok'[s.jar].chain # tok'[t].chain
    BY <1>1, <1>10, <1>11, <1>13, <2>1
  <2>5. \A i, s \in net' : Taken(i) /\ Taken(s) /\ tok'[i.jar].chain = tok'[s.jar].chain => i = s
    BY <1>1, <1>10 DEF TokensInv, Chains
  <2>6. QED
    BY <1>9, <2>2, <2>3, <2>4, <2>5 DEF TokensInv, Chains, SingleUse, Taken
<1>14. QED
  BY <1>12, <1>13

LEMMA IssuesRow ==
  ASSUME TokensInv, NEW r \in net, ServeLogin(r) \/ IssueRefresh(r)
  PROVE  \E row \in TokenRow :
           /\ tok' = Append(tok, row) /\ live' = live \cup {Len(tok) + 1}
           /\ Moved(r, Answer(r, Len(tok) + 1)) /\ UNCHANGED <<version, cookie, tab, used>>
           /\ r.kind # "logout" /\ row.user = r.user
           /\ \/ r.kind = "login" /\ r.stage = "sent" /\ row.chain = Len(tok) + 1
              \/ Taken(r) /\ row.chain = tok[r.jar].chain /\ row.sv = tok[r.jar].sv
<1>1. r \in Call /\ Carried(r) /\ Len(tok) \in Nat
  BY TokensAre
<1>2. CASE ServeLogin(r)
  <2> DEFINE row == [user |-> r.user, sv |-> version[r.user], chain |-> Len(tok) + 1]
  <2>1. row \in TokenRow
    BY <1>1, <1>2 DEF ServeLogin, Carried, TokenRow, TokensInv, AuthType
  <2>2. QED
    BY <1>2, <2>1 DEF ServeLogin, Issue
<1>3. CASE IssueRefresh(r)
  <2> DEFINE row == [user |-> r.user, sv |-> r.sv, chain |-> tok[r.jar].chain]
  <2>1. /\ Taken(r) /\ r.kind # "logout" /\ r.jar \in Tokens /\ r.user = tok[r.jar].user
        /\ r.sv = tok[r.jar].sv
    BY <1>1, <1>3 DEF IssueRefresh, Taken, Carried
  <2>2. tok[r.jar].chain \in 1..r.jar /\ r.jar \in Nat
    BY <2>1, TokensAre DEF TokensInv, Chains
  <2>3. row \in TokenRow /\ tok[r.jar].chain # 0
    BY <2>1, <2>2, TokensAre DEF TokenRow
  <2>4. QED
    BY <1>3, <2>1, <2>3 DEF IssueRefresh, Issue
<1>4. QED
  BY <1>2, <1>3

\* An answer that brings nothing.
LEMMA AnsweredTokens ==
  ASSUME TokensInv, NEW r \in net, r.stage = "sent", r.kind # "login", NEW token \in Nat,
         r.kind # "logout" => token = 0,
         Moved(r, Answer(r, token)), live' \in SUBSET live, UNCHANGED <<tok, version, cookie, tab, used>>
  PROVE  TokensInv'
<1>1. r \in Call /\ Carried(r)
  BY TokensAre
<1>2. PICK k : k = Answer(r, token)
  OBVIOUS
<1>3. /\ k \in Call /\ k.kind = r.kind /\ k.stage = "answered" /\ k.user = r.user /\ k.access = 0
      /\ k.jar = 0 /\ k.gen = r.gen /\ k.token = token /\ k.orphan = r.orphan
  BY <1>1, <1>2, Answered
<1> DEFINE new == IF k.orphan THEN {} ELSE {k}
<1>4. net' \subseteq net \cup new
  BY <1>2, <1>3 DEF Moved
<1>5. Tokens' = Tokens
  BY DEF Tokens
<1>6. \A i \in new : i \in Call /\ ~Taken(i) /\ Carried(i)'
  BY <1>1, <1>3, <1>5 DEF Carried, Taken
<1> HIDE DEF new
<1>7. QED
  BY <1>4, <1>6, Unchanged, TokensKept

LEMMA IssuedTokens ==
  ASSUME TokensInv, NEW r \in net, ServeLogin(r) \/ IssueRefresh(r)
  PROVE  TokensInv'
<1>1. PICK row \in TokenRow :
           /\ tok' = Append(tok, row) /\ live' = live \cup {Len(tok) + 1}
           /\ Moved(r, Answer(r, Len(tok) + 1)) /\ UNCHANGED <<version, cookie, tab, used>>
           /\ r.kind # "logout" /\ row.user = r.user
           /\ \/ r.kind = "login" /\ r.stage = "sent" /\ row.chain = Len(tok) + 1
              \/ Taken(r) /\ row.chain = tok[r.jar].chain /\ row.sv = tok[r.jar].sv
  BY IssuesRow
<1>2. PICK n \in Nat : n = Len(tok) + 1
  BY TokensAre
<1>3. /\ tok' \in Seq(TokenRow) /\ Tokens' = Tokens \cup {n} /\ n \notin Tokens
      /\ (\A t \in Tokens : tok'[t] = tok[t]) /\ tok'[n] = row
  BY <1>1, <1>2, Grown
<1>4. /\ live' = live \cup {n} /\ Moved(r, Answer(r, n)) /\ UNCHANGED <<version, cookie, tab, used>>
      /\ r.kind # "logout" /\ row.user = r.user
      /\ \/ row.chain = n
         \/ Taken(r) /\ row.chain = tok[r.jar].chain /\ row.sv = tok[r.jar].sv
  BY <1>1, <1>2
<1>5. QED
  BY <1>2, <1>3, <1>4, IssueTokens

\* What a refresh, and a logout, are answered at once, or after the token was taken.
LEMMA TakeTokens ==
  ASSUME TokensInv, NEW r \in net, TakeRefresh(r)
  PROVE  TokensInv'
<1>1. /\ r \in Call /\ Carried(r) /\ r.kind \in {"refresh", "restore"} /\ r.stage = "sent"
      /\ live' = live \ {r.jar} /\ UNCHANGED <<tok, version, cookie, tab, used>>
  BY TokensAre DEF TakeRefresh
<1>2. CASE /\ r.jar \in live
           /\ Moved(r, [r EXCEPT !.stage = "taken", !.sv = tok[r.jar].sv, !.user = tok[r.jar].user])
  <2>1. r.jar \in Tokens /\ tok[r.jar].sv \in Nat /\ tok[r.jar].user \in Users
    BY <1>2, TokensAre DEF TokensInv, AuthType
  <2>2. PICK k : k = [r EXCEPT !.stage = "taken", !.sv = tok[r.jar].sv, !.user = tok[r.jar].user]
    OBVIOUS
  <2>3. /\ k \in Call /\ k.kind = r.kind /\ k.stage = "taken" /\ k.user = tok[r.jar].user
        /\ k.sv = tok[r.jar].sv /\ k.access = r.access /\ k.jar = r.jar /\ k.gen = r.gen
        /\ k.orphan = r.orphan
    BY <1>1, <2>1, <2>2 DEF Call
  <2>4. net' = (net \ {r}) \cup {k}
    BY <1>2, <2>2, <2>3 DEF Moved
  <2>5. Carried(k) /\ Taken(k)
    BY <1>1, <2>1, <2>3 DEF Carried, Taken
  <2>6. Tokens' = Tokens
    BY <1>1 DEF Tokens
  <2>7. \A s \in net' : Carried(s)'
    BY <1>1, <2>4, <2>5, <2>6, TokensAre DEF Carried
  <2>8. AuthType'
    BY <1>1, <2>3, <2>4, <2>6, <2>7 DEF TokensInv, AuthType
  <2>9. Chains'
    BY <1>1, <1>2, <2>3, <2>4, <2>6 DEF TokensInv, Chains, SingleUse, Taken
  <2>10. QED
    BY <2>8, <2>9 DEF TokensInv
<1>3. CASE Moved(r, Answer(r, 0))
  BY <1>1, <1>3, AnsweredTokens
<1>4. QED
  BY <1>2, <1>3 DEF TakeRefresh

LEMMA LogoutTokens ==
  ASSUME TokensInv, NEW r \in net, ServeLogout(r)
  PROVE  TokensInv'
<1>1. /\ r.stage = "sent" /\ r.kind = "logout" /\ live' \in SUBSET live
      /\ UNCHANGED <<tok, version, cookie, tab, used>>
      /\ Moved(r, Answer(r, 0)) \/ Moved(r, Answer(r, 1))
  BY DEF ServeLogout
<1>2. CASE Moved(r, Answer(r, 0))
  BY <1>1, <1>2, AnsweredTokens
<1>3. CASE Moved(r, Answer(r, 1))
  BY <1>1, <1>3, AnsweredTokens
<1>4. QED
  BY <1>1, <1>2, <1>3

\* The tokens are sound whatever the browser does.
LEMMA TokensStep ==
  ASSUME TokensInv, [AuthNext]_authVars
  PROVE  TokensInv'
<1>1. CASE UNCHANGED authVars
  BY <1>1 DEF authVars, TokensInv, AuthType, Chains, SingleUse, Carried, Taken, Tokens
<1>2. CASE AuthNext
  BY <1>2, PageTokens, ReloadTokens, DropTokens, IssuedTokens, TakeTokens, LogoutTokens DEF AuthNext, Serve
<1>3. QED
  BY <1>1, <1>2

LEMMA TokensBegin == AuthInit => TokensInv
<1>1. SUFFICES ASSUME AuthInit PROVE TokensInv
  OBVIOUS
<1>2. tok = <<>> /\ Tokens = {}
  BY <1>1 DEF AuthInit, Tokens
<1>3. tok \in Seq(TokenRow)
  BY <1>2
<1>4. LoggedOut \in TabRow /\ LoggedOut.access = 0
  BY DEF LoggedOut, TabRow
<1>5. AuthType
  BY <1>1, <1>2, <1>3, <1>4 DEF AuthInit, AuthType, UsedRow
<1>6. Chains
  BY <1>1, <1>2 DEF AuthInit, Chains, SingleUse
<1>7. QED
  BY <1>5, <1>6 DEF TokensInv

-----------------------------------------------------------------------------
(* The page.                                                               *)

LEMMA ListeningKinds ==
  ASSUME AuthInv, NEW r \in net, Heard(r)
  PROVE  /\ r.kind = "login" => tab.access = 0 /\ \A s \in net : Heard(s) => s = r
         /\ r.kind = "refresh" => /\ tab.access # 0 => r.gen = tab.gen
                                  /\ tab.access = 0 => tab.left /\ r.gen < tab.gen
                                  /\ \A s \in net : Heard(s) /\ s.kind = "refresh" => s = r
         /\ r.kind = "restore" => /\ tab.access = 0 /\ (~tab.left => r.gen = tab.gen)
                                  /\ \A s \in net : Heard(s) /\ s.kind = "restore" => s = r
         /\ r.kind = "logout" => tab.left /\ tab.access = 0
         /\ r.kind \in {"refresh", "restore"} => r.gen <= tab.gen
         /\ r.kind \in {"login", "refresh", "restore", "logout"}
BY TokensAre DEF AuthInv, PageInv, Listening, Heard, Carried, Call

LEMMA LogoutsAre ==
  ASSUME AuthInv, NEW r \in net, r.kind = "logout"
  PROVE  Heard(r) /\ tab.left /\ tab.access = 0
BY TokensAre, ListeningKinds DEF AuthInv, Heard, Carried

LEMMA BringersAre ==
  ASSUME AuthInv, NEW r \in net, Brings(r)
  PROVE  /\ Heard(r) /\ r.token \in Tokens /\ r.user = tok[r.token].user /\ r.token \in live
         /\ r.token # cookie /\ r.token # 0
         /\ \A s \in net : s.jar # r.token /\ (Brings(s) /\ s.token = r.token => s = r)
BY TokensAre DEF AuthInv, PageInv, Unseen, Heard, Carried, Brings

LEMMA RestoresAre ==
  ASSUME AuthInv, tab.left
  PROVE  \A r \in net : r.kind = "restore" /\ Heard(r) /\ r.gen = tab.gen =>
           (r.stage = "sent" /\ r.jar \notin live) \/ (r.stage = "answered" /\ r.token = 0)
<1>1. Leaving
  BY DEF AuthInv, PageInv
<1>2. QED
  BY <1>1 DEF Leaving

\* A request is sent: a login, a refresh, a restore.
LEMMA LoginPage ==
  ASSUME AuthInv, NEW u \in Users, Login(u)
  PROVE  PageInv'
<1>1. PICK k : k = Request("login", u, 0, 0)
  OBVIOUS
<1>2. /\ k.kind = "login" /\ k.stage = "sent" /\ k.jar = 0 /\ k.orphan = FALSE
      /\ net' = net \cup {k} /\ UNCHANGED <<tok, live, cookie, tab, used>> /\ tab.access = 0
  BY <1>1 DEF Login, Request
<1>3. \A r \in net : ~Heard(r)
  BY ListeningKinds DEF Login, AuthTransitions, HeardFrom, Heard
<1>4. Listening'
  BY <1>2, <1>3 DEF Listening, Heard
<1>5. Unseen'
  BY <1>2, BringersAre DEF AuthInv, PageInv, Unseen, Brings
<1>6. Leaving'
  BY <1>2 DEF AuthInv, PageInv, Leaving, Revokes, Heard
<1>7. InSession'
  BY <1>2 DEF InSession
<1>8. QED
  BY <1>4, <1>5, <1>6, <1>7 DEF PageInv

LEMMA RefreshPage ==
  ASSUME AuthInv, Refresh
  PROVE  PageInv'
<1>1. PICK k : k = Request("refresh", NoUser, 0, cookie)
  OBVIOUS
<1>2. /\ k.kind = "refresh" /\ k.stage = "sent" /\ k.jar = cookie /\ k.orphan = FALSE /\ k.gen = tab.gen
      /\ net' = net \cup {k} /\ UNCHANGED <<tok, live, cookie, tab, used>> /\ tab.access # 0
  BY <1>1 DEF Refresh, Request
<1>3. ~tab.left /\ \A r \in net : Heard(r) => r.kind \notin {"login", "refresh", "restore", "logout"}
  BY <1>2, ListeningKinds DEF Refresh, HeardFrom, Heard, AuthInv, PageInv, Listening
<1>4. Listening'
  BY <1>2, <1>3 DEF Listening, Heard
<1>5. Unseen'
  BY <1>2, BringersAre DEF AuthInv, PageInv, Unseen, Brings
<1>6. Leaving'
  BY <1>2, <1>3 DEF AuthInv, PageInv, Leaving, Revokes, Heard
<1>7. InSession'
  BY <1>2, <1>3 DEF AuthInv, PageInv, InSession, OneUser, Heard, Taken, Brings
<1>8. QED
  BY <1>4, <1>5, <1>6, <1>7 DEF PageInv

LEMMA RestorePage ==
  ASSUME AuthInv, Navigate = FALSE, Restore
  PROVE  PageInv'
<1>1. PICK k : k = Request("restore", NoUser, 0, cookie)
  OBVIOUS
<1>2. /\ k.kind = "restore" /\ k.stage = "sent" /\ k.jar = cookie /\ k.orphan = FALSE /\ k.gen = tab.gen
      /\ net' = net \cup {k} /\ UNCHANGED <<tok, live, cookie, tab, used>> /\ tab.access = 0
  BY <1>1 DEF Restore, Request
<1>3. \A r \in net : Heard(r) => r.kind = "refresh"
  BY <1>2, ListeningKinds DEF Restore, HeardFrom, Heard
<1>4. Listening'
  BY <1>2, <1>3 DEF AuthInv, PageInv, Listening, Heard
<1>5. Unseen'
  BY <1>2, BringersAre DEF AuthInv, PageInv, Unseen, Brings
<1>6. Leaving'
  <2>1. \A r \in net : ~Revokes(r)
    BY <1>3, LogoutsAre DEF Revokes
  <2>2. tab.left => cookie \notin live
    BY <2>1 DEF AuthInv, PageInv, Leaving
  <2>3. QED
    BY <1>2, <1>3, <2>1, <2>2 DEF AuthInv, PageInv, Leaving, Revokes, Heard
<1>7. InSession'
  BY <1>2 DEF InSession
<1>8. QED
  BY <1>4, <1>5, <1>6, <1>7 DEF PageInv

\* The session is left: by the user, or because a refresh was refused.
LEMMA LeftPage ==
  ASSUME AuthInv, UNCHANGED <<tok, live, cookie>>, tab' = Forgotten,
         NEW k, k = LogoutRequest(tab.access, cookie), k \in net', net' \subseteq net \cup {k},
         \A r \in net : Heard(r) => r.kind # "login"
  PROVE  PageInv'
<1>1. k.kind = "logout" /\ k.stage = "sent" /\ k.jar = cookie /\ k.access = tab.access
  BY DEF LogoutRequest, Request
<1>2. tab'.access = 0 /\ tab'.left = TRUE /\ tab.gen < tab'.gen /\ tab.gen \in Nat /\ tab'.gen \in Nat
  BY Forgets, TokensAre DEF AuthInv, TabRow
<1>3. \A r \in net : Heard(r) /\ r.kind \in {"refresh", "restore"} => r.gen < tab'.gen
  <2>1. SUFFICES ASSUME NEW r \in net, Heard(r), r.kind \in {"refresh", "restore"} PROVE r.gen < tab'.gen
    OBVIOUS
  <2>2. r.gen \in Nat /\ r.gen <= tab.gen
    BY <2>1, ListeningKinds, TokensAre DEF AuthInv, Call
  <2>3. QED
    BY <1>2, <2>2
<1>4. Listening'
  BY <1>1, <1>2, <1>3 DEF AuthInv, PageInv, Listening, Heard
<1>5. Unseen'
  BY <1>1, BringersAre DEF AuthInv, PageInv, Unseen, Brings
<1>6. Leaving'
  <2>1. tab.access # 0 /\ cookie \in live => tok[tab.access].user = tok[cookie].user
    BY DEF AuthInv, PageInv, InSession, OneUser
  <2>2. \A r \in net' : Revokes(r) /\ r.jar \in live => r.access = 0 \/ tok[r.access].user = tok[r.jar].user
    BY <1>1, <2>1 DEF AuthInv, PageInv, Leaving
  <2>3. \A r \in net' : r.kind = "restore" /\ Heard(r)' => r.gen # tab'.gen
    <3>1. SUFFICES ASSUME NEW r \in net', r.kind = "restore", Heard(r)' PROVE r.gen # tab'.gen
      OBVIOUS
    <3>2. r \in net /\ Heard(r)
      BY <1>1, <3>1 DEF Heard
    <3>3. r.gen \in Nat /\ r.gen < tab'.gen
      BY <1>3, <3>1, <3>2, TokensAre DEF AuthInv, Call
    <3>4. QED
      BY <1>2, <3>3
  <2>4. QED
    BY <1>1, <1>2, <2>2, <2>3 DEF Leaving, Revokes
<1>7. InSession'
  BY <1>2 DEF InSession
<1>8. QED
  BY <1>4, <1>5, <1>6, <1>7 DEF PageInv

LEMMA LogoutPage ==
  ASSUME AuthInv, Logout
  PROVE  PageInv'
<1>1. PICK k : k = LogoutRequest(tab.access, cookie)
  OBVIOUS
<1>2. UNCHANGED <<tok, live, cookie>> /\ tab' = Forgotten /\ net' = net \cup {k}
  BY <1>1 DEF Logout
<1>3. \A r \in net : Heard(r) => r.kind # "login"
  BY ListeningKinds DEF Logout, HeardFrom, Heard
<1>4. QED
  BY <1>1, <1>2, <1>3, LeftPage

LEMMA ReloadPage ==
  ASSUME AuthInv, Reload
  PROVE  PageInv'
<1>1. /\ UNCHANGED <<tok, live, version, cookie>> /\ tab' = [LoggedOut EXCEPT !.left = tab.left]
      /\ net' = {Deserted(r) : r \in {q \in net : q.stage # "answered"}}
      /\ \A r \in net : r.kind # "logout"
  BY LogoutsAre DEF Reload, Deserted, HeardFrom, Heard
<1>2. tab'.access = 0 /\ tab'.left = tab.left
  BY <1>1 DEF LoggedOut
<1>3. ASSUME NEW k \in net' PROVE k.orphan = TRUE /\ k.stage # "answered" /\ k.kind # "logout"
  <2>1. PICK r \in net : k = Deserted(r) /\ r.stage # "answered" /\ r.kind # "logout"
    BY <1>1
  <2>2. QED
    BY <2>1, DesertedIs DEF AuthInv
<1>4. tab.left => cookie \notin live
  BY <1>1 DEF AuthInv, PageInv, Leaving, Revokes
<1>5. QED
  BY <1>1, <1>2, <1>3, <1>4 DEF PageInv, Listening, Unseen, Brings, Leaving, Revokes, InSession, Heard

LEMMA BumpPage ==
  ASSUME AuthInv, NEW u \in Users, Bump(u)
  PROVE  PageInv'
<1>1. UNCHANGED <<tok, live, cookie, tab, net>> /\ used'.drops = used.drops
  BY TokensAre, UsedUp DEF AuthInv, Bump
<1>2. QED
  BY <1>1 DEF AuthInv, PageInv, Listening, Unseen, Leaving, Revokes, InSession, OneUser, Heard, Brings, Taken

LEMMA DropPage ==
  ASSUME AuthInv, NEW r \in net, Drop(r)
  PROVE  PageInv'
<1>1. /\ UNCHANGED <<tok, live, version, cookie, tab>> /\ r.kind # "logout" /\ r.kind \in {"refresh", "restore"}
      /\ \/ net' = net \ {r}
         \/ net' = (net \ {r}) \cup {Deserted(r)} /\ r.stage # "answered"
  <2>1. Deserted(r).stage = r.stage /\ Deserted(r).orphan = TRUE
    BY TokensAre DEF AuthInv, Deserted, Call
  <2>2. QED
    BY <2>1 DEF Drop, Moved, Deserted
<1>2. used'.drops # 0
  BY TokensAre, UsedUp DEF AuthInv, Drop
<1>3. PICK k : k = Deserted(r)
  OBVIOUS
<1>4. \/ net' = net \ {r}
      \/ /\ net' = (net \ {r}) \cup {k} /\ k.orphan = TRUE /\ k.jar = r.jar /\ k.stage # "answered"
         /\ k.kind # "logout"
  BY <1>1, <1>3, DesertedIs DEF AuthInv
<1>5. Listening'
  BY <1>1, <1>4 DEF AuthInv, PageInv, Listening, Heard
<1>6. Unseen'
  BY <1>1, <1>4, BringersAre DEF AuthInv, PageInv, Unseen, Brings
<1>7. Leaving'
  BY <1>1, <1>4 DEF AuthInv, PageInv, Leaving, Revokes, Heard
<1>8. InSession'
  BY <1>1, <1>2, <1>4 DEF AuthInv, PageInv, InSession, OneUser, Heard, Brings, Taken
<1>9. QED
  BY <1>5, <1>6, <1>7, <1>8 DEF PageInv

\* The server hears a request, or answers it: nothing that is heard changes its kind.
LEMMA MovedListening ==
  ASSUME AuthInv, NEW r \in net, NEW k, k.kind = r.kind, k.gen = r.gen, k.orphan = r.orphan,
         \/ net' = net \ {r} /\ r.orphan
         \/ net' = (net \ {r}) \cup {k},
         UNCHANGED tab
  PROVE  Listening'
<1>1. r \in Call
  BY TokensAre DEF AuthInv
<1>2. CASE net' = net \ {r}
  BY <1>2 DEF AuthInv, PageInv, Listening, Heard
<1>3. CASE net' = (net \ {r}) \cup {k}
  <2>1. Heard(k)' <=> Heard(r)
    BY <1>3 DEF Heard
  <2>2. \A s \in net' : s # k /\ Heard(s)' => s \in net /\ s # r /\ Heard(s)
    BY <1>3 DEF Heard
  <2>3. tab'.left => tab'.access = 0
    BY DEF AuthInv, PageInv, Listening
  <2>4. ASSUME NEW s \in net', Heard(s)'
        PROVE  /\ s.kind = "login" => tab'.access = 0 /\ \A i \in net' : Heard(i)' => i = s
               /\ s.kind = "refresh" => /\ IF tab'.access # 0 THEN s.gen = tab'.gen ELSE tab'.left /\ s.gen < tab'.gen
                                        /\ \A i \in net' : Heard(i)' /\ i.kind = "refresh" => i = s
               /\ s.kind = "restore" => /\ tab'.access = 0 /\ (~tab'.left => s.gen = tab'.gen)
                                        /\ \A i \in net' : Heard(i)' /\ i.kind = "restore" => i = s
               /\ s.kind = "logout" => tab'.left
    <3>1. CASE s = k
      <4>1. Heard(r)
        BY <2>1, <2>4, <3>1
      <4>2. QED
        BY <2>2, <3>1, <4>1, ListeningKinds
    <3>2. CASE s # k
      <4>1. s \in net /\ s # r /\ Heard(s)
        BY <2>2, <2>4, <3>2
      <4>2. Heard(k)' => Heard(r)
        BY <2>1
      <4>3. QED
        BY <2>2, <3>2, <4>1, <4>2, ListeningKinds
    <3>3. QED
      BY <3>1, <3>2
  <2>5. QED
    BY <2>3, <2>4 DEF Listening
<1>4. QED
  BY <1>2, <1>3

LEMMA IssuedPage ==
  ASSUME AuthInv, NEW r \in net, ServeLogin(r) \/ IssueRefresh(r)
  PROVE  PageInv'
<1>1. PICK row \in TokenRow :
           /\ tok' = Append(tok, row) /\ live' = live \cup {Len(tok) + 1}
           /\ Moved(r, Answer(r, Len(tok) + 1)) /\ UNCHANGED <<version, cookie, tab, used>>
           /\ r.kind # "logout" /\ row.user = r.user
           /\ \/ r.kind = "login" /\ r.stage = "sent"
              \/ Taken(r)
  BY IssuesRow DEF AuthInv
<1>2. PICK n \in Nat : n = Len(tok) + 1
  BY TokensAre DEF AuthInv
<1>3. /\ n \notin Tokens /\ n # 0 /\ \A t \in Tokens : tok'[t] = tok[t]
  BY <1>1, <1>2, Grown, TokensAre DEF AuthInv
<1>4. PICK k : k = Answer(r, n)
  OBVIOUS
<1>5. /\ k.kind = r.kind /\ k.stage = "answered" /\ k.user = r.user /\ k.jar = 0 /\ k.gen = r.gen
      /\ k.token = n /\ k.orphan = r.orphan
  BY <1>2, <1>4, Answered, TokensAre DEF AuthInv
<1>6. /\ live' = live \cup {n} /\ UNCHANGED <<cookie, tab, used>>
      /\ \/ net' = net \ {r} /\ r.orphan
         \/ net' = (net \ {r}) \cup {k} /\ ~r.orphan
  BY <1>1, <1>2, <1>4, <1>5 DEF Moved
<1>7. r.stage # "answered" /\ r.kind # "logout" /\ (r.kind \in {"refresh", "restore"} => Taken(r))
  BY <1>1 DEF Taken
<1>8. cookie # n /\ tab.access # n /\ \A s \in net : s.jar # n /\ s.access # n
  BY <1>3, TokensAre DEF AuthInv, TokensInv, AuthType, Carried
<1>9. Listening'
  BY <1>5, <1>6, MovedListening
<1>10. Unseen'
  <2>1. \A s \in net : Brings(s) => s.token \in Tokens /\ s.token # n
    BY <1>3, BringersAre
  <2>2. \A s \in net' : s # k => s \in net
    BY <1>6
  <2>3. ASSUME NEW s \in net', Brings(s)
        PROVE  /\ s.token \in live' /\ s.token # cookie'
               /\ \A i \in net' : i.jar # s.token /\ (Brings(i) /\ i.token = s.token => i = s)
    <3>1. CASE s = k
      BY <1>3, <1>5, <1>6, <1>8, <2>1, <2>2, <3>1
    <3>2. CASE s # k
      BY <1>5, <1>6, <2>1, <2>2, <2>3, <3>2, BringersAre
    <3>3. QED
      BY <3>1, <3>2
  <2>4. QED
    BY <2>3 DEF Unseen
<1>11. Leaving'
  <2>1. \A s \in net : s.jar \in live => s.jar \in Tokens
    BY DEF AuthInv, TokensInv, AuthType
  <2>2. \A s \in net' : Revokes(s) => s \in net /\ s # r
    BY <1>5, <1>6 DEF Revokes
  <2>3. \A s \in net' : Revokes(s) /\ s.jar \in live' => s.access = 0 \/ tok'[s.access].user = tok'[s.jar].user
    <3>1. SUFFICES ASSUME NEW s \in net, Revokes(s), s.jar \in live, s.access # 0
                   PROVE  tok'[s.access].user = tok'[s.jar].user
      BY <1>6, <1>8, <2>2
    <3>2. s.access \in Tokens /\ s.jar \in Tokens
      BY <2>1, <3>1, TokensAre DEF AuthInv, Carried
    <3>3. tok[s.access].user = tok[s.jar].user
      BY <3>1 DEF AuthInv, PageInv, Leaving
    <3>4. QED
      BY <1>3, <3>2, <3>3
  <2>4. tab'.left /\ cookie' \in live' => \E s \in net' : Revokes(s) /\ s.jar = cookie'
    BY <1>5, <1>6, <1>7, <1>8 DEF AuthInv, PageInv, Leaving, Revokes
  <2>5. tab'.left => \A s \in net' : s.kind = "restore" /\ Heard(s)' /\ s.gen = tab'.gen =>
                       (s.stage = "sent" /\ s.jar \notin live') \/ (s.stage = "answered" /\ s.token = 0)
    <3>1. SUFFICES ASSUME tab.left, NEW s \in net', s.kind = "restore", Heard(s)', s.gen = tab.gen
                   PROVE  (s.stage = "sent" /\ s.jar \notin live') \/ (s.stage = "answered" /\ s.token = 0)
      BY <1>6
    <3>2. \A i \in net : i.kind = "restore" /\ Heard(i) /\ i.gen = tab.gen =>
            (i.stage = "sent" /\ i.jar \notin live) \/ (i.stage = "answered" /\ i.token = 0)
      BY <3>1, RestoresAre
    <3>3. CASE s = k
      <4>1. r.kind = "restore" /\ Heard(r) /\ r.gen = tab.gen /\ r.stage = "taken"
        BY <1>5, <1>6, <1>7, <3>1, <3>3 DEF Heard, Taken
      <4>2. QED
        BY <3>2, <4>1
    <3>4. CASE s # k
      <4>1. s \in net /\ Heard(s)
        BY <1>6, <3>1, <3>4 DEF Heard
      <4>2. QED
        BY <1>6, <1>8, <3>1, <3>2, <4>1
    <3>5. QED
      BY <3>3, <3>4
  <2>6. QED
    BY <2>3, <2>4, <2>5 DEF Leaving
<1>12. ASSUME tab'.access # 0 PROVE InSession'
  <2>1. tab.access \in Tokens /\ tok'[tab.access] = tok[tab.access]
    BY <1>3, <1>6, <1>12 DEF AuthInv, TokensInv, AuthType
  <2>2. OneUser'
    BY <1>3, <1>6, <1>8, <1>12, <2>1 DEF AuthInv, PageInv, InSession, OneUser, TokensInv, AuthType
  <2>3. \A s \in net' : Heard(s)' /\ s.kind = "refresh" =>
          /\ s.jar \in live' => tok'[s.jar].user = tab'.user
          /\ Taken(s) \/ Brings(s) => s.user = tab'.user
    <3>1. SUFFICES ASSUME NEW s \in net', Heard(s)', s.kind = "refresh"
                   PROVE  /\ s.jar \in live' => tok'[s.jar].user = tab'.user
                          /\ Taken(s) \/ Brings(s) => s.user = tab'.user
      OBVIOUS
    <3>2. CASE s = k
      <4>1. r.kind = "refresh" /\ Heard(r) /\ Taken(r)
        BY <1>5, <1>6, <1>7, <3>1, <3>2 DEF Heard
      <4>2. r.user = tab.user
        BY <1>6, <1>12, <4>1 DEF AuthInv, PageInv, InSession
      <4>3. 0 \notin live'
        BY <1>3, <1>6, TokensAre DEF AuthInv
      <4>4. QED
        BY <1>5, <1>6, <3>2, <4>2, <4>3
    <3>3. CASE s # k
      <4>1. s \in net /\ Heard(s)
        BY <1>6, <3>1, <3>3 DEF Heard
      <4>2. s.jar \in live' => s.jar \in live /\ s.jar \in Tokens
        BY <1>6, <1>8, <4>1 DEF AuthInv, TokensInv, AuthType
      <4>3. QED
        BY <1>3, <1>6, <1>12, <3>1, <4>1, <4>2 DEF AuthInv, PageInv, InSession
    <3>4. QED
      BY <3>2, <3>3
  <2>4. used'.drops = 0 =>
          /\ cookie' = tab'.access
          /\ \A s \in net' : s.orphan => s.jar # cookie'
          /\ cookie' \in live' \/ \E s \in net' : Heard(s)' /\ s.kind = "refresh"
    BY <1>5, <1>6, <1>12 DEF AuthInv, PageInv, InSession, Heard
  <2>5. QED
    BY <2>2, <2>3, <2>4 DEF InSession
<1>13. QED
  BY <1>9, <1>10, <1>11, <1>12 DEF PageInv, InSession

\* A request that brings no token, or has one taken for it.
LEMMA MovedPage ==
  ASSUME AuthInv, NEW r \in net, r.stage = "sent", NEW k, k.kind = r.kind, k.gen = r.gen,
         k.orphan = r.orphan, ~Brings(k), k.stage # "sent", k.jar \in {0, r.jar},
         \/ net' = net \ {r} /\ r.orphan
         \/ net' = (net \ {r}) \cup {k},
         UNCHANGED <<tok, cookie, tab, used>>, live' \in {live, live \ {r.jar}},
         k.stage = "taken" => r.jar \in live /\ live' = live \ {r.jar} /\ k.user = tok[r.jar].user,
         r.kind = "restore" /\ r.jar \notin live => k.stage = "answered" /\ k.token = 0,
         r.kind = "logout" /\ Revokes(r) /\ r.jar \in live /\ (r.access = 0 \/ tok[r.access].user = tok[r.jar].user)
           => r.jar \notin live',
         r.kind # "login"
  PROVE  PageInv'
<1>1. r \in Call /\ Carried(r) /\ 0 \notin live /\ live' \subseteq live
  BY TokensAre DEF AuthInv
<1>2. Listening'
  BY MovedListening
<1>3. Unseen'
  <2>1. \A s \in net' : Brings(s) => s \in net
    OBVIOUS
  <2>2. \A s \in net' : s.jar \in {0, r.jar} \/ s \in net
    OBVIOUS
  <2>3. QED
    BY <2>1, <2>2, BringersAre DEF Unseen
<1>4. Leaving'
  <2>1. \A s \in net' : Revokes(s) => s \in net
    BY DEF Revokes
  <2>2. tab'.left /\ cookie' \in live' => \E s \in net' : Revokes(s) /\ s.jar = cookie'
    <3>1. SUFFICES ASSUME tab.left, cookie \in live' PROVE \E s \in net' : Revokes(s) /\ s.jar = cookie
      OBVIOUS
    <3>2. PICK s \in net : Revokes(s) /\ s.jar = cookie
      BY <1>1, <3>1 DEF AuthInv, PageInv, Leaving
    <3>3. s # r
      BY <1>1, <3>1, <3>2 DEF AuthInv, PageInv, Leaving, Revokes
    <3>4. QED
      BY <3>2, <3>3
  <2>3. tab'.left => \A s \in net' : s.kind = "restore" /\ Heard(s)' /\ s.gen = tab'.gen =>
                       (s.stage = "sent" /\ s.jar \notin live') \/ (s.stage = "answered" /\ s.token = 0)
    <3>1. SUFFICES ASSUME tab.left, NEW s \in net', s.kind = "restore", Heard(s)', s.gen = tab.gen
                   PROVE  (s.stage = "sent" /\ s.jar \notin live') \/ (s.stage = "answered" /\ s.token = 0)
      OBVIOUS
    <3>2. \A i \in net : i.kind = "restore" /\ Heard(i) /\ i.gen = tab.gen =>
            (i.stage = "sent" /\ i.jar \notin live) \/ (i.stage = "answered" /\ i.token = 0)
      BY <3>1, RestoresAre
    <3>3. CASE s \in net
      BY <1>1, <3>1, <3>2, <3>3 DEF Heard
    <3>4. CASE s = k
      BY <3>1, <3>2, <3>4 DEF Heard
    <3>5. QED
      BY <3>3, <3>4
  <2>4. QED
    BY <1>1, <2>1, <2>2, <2>3 DEF AuthInv, PageInv, Leaving
<1>5. ASSUME tab.access # 0 PROVE InSession'
  <2>1. OneUser'
    BY <1>1, <1>5 DEF AuthInv, PageInv, InSession, OneUser
  <2>2. \A s \in net' : Heard(s)' /\ s.kind = "refresh" =>
          /\ s.jar \in live' => tok'[s.jar].user = tab'.user
          /\ Taken(s) \/ Brings(s) => s.user = tab'.user
    <3>1. SUFFICES ASSUME NEW s \in net', Heard(s)', s.kind = "refresh"
                   PROVE  /\ s.jar \in live' => tok[s.jar].user = tab.user
                          /\ Taken(s) \/ Brings(s) => s.user = tab.user
      OBVIOUS
    <3>2. CASE s \in net
      BY <1>1, <1>5, <3>1, <3>2 DEF AuthInv, PageInv, InSession, Heard
    <3>3. CASE s = k
      <4>1. r.kind = "refresh" /\ Heard(r)
        BY <3>1, <3>3 DEF Heard
      <4>2. r.jar \in live => tok[r.jar].user = tab.user
        BY <1>5, <4>1 DEF AuthInv, PageInv, InSession
      <4>3. QED
        BY <1>1, <3>3, <4>2 DEF Taken
    <3>4. QED
      BY <3>2, <3>3
  <2>3. used'.drops = 0 =>
          /\ cookie' = tab'.access
          /\ \A s \in net' : s.orphan => s.jar # cookie'
          /\ cookie' \in live' \/ \E s \in net' : Heard(s)' /\ s.kind = "refresh"
    <3>1. SUFFICES ASSUME used.drops = 0
                   PROVE  /\ cookie = tab.access
                          /\ \A s \in net' : s.orphan => s.jar # cookie
                          /\ cookie \in live' \/ \E s \in net' : Heard(s)' /\ s.kind = "refresh"
      OBVIOUS
    <3>2. /\ cookie = tab.access /\ cookie # 0 /\ \A s \in net : s.orphan => s.jar # cookie
          /\ cookie \in live \/ \E s \in net : Heard(s) /\ s.kind = "refresh"
      BY <1>5, <3>1 DEF AuthInv, PageInv, InSession
    <3>3. \A s \in net' : s.orphan => s.jar # cookie
      BY <3>2
    <3>4. ASSUME NEW s \in net, Heard(s), s.kind = "refresh" PROVE \E i \in net' : Heard(i)' /\ i.kind = "refresh"
      BY <3>4 DEF Heard
    <3>5. cookie \in live /\ cookie \notin live' => Heard(r) /\ r.kind = "refresh"
      BY <1>1, <1>5, <3>2, ListeningKinds DEF Heard
    <3>6. QED
      BY <3>2, <3>3, <3>4, <3>5
  <2>4. QED
    BY <2>1, <2>2, <2>3 DEF InSession
<1>6. QED
  BY <1>2, <1>3, <1>4, <1>5 DEF PageInv, InSession

LEMMA TakePage ==
  ASSUME AuthInv, NEW r \in net, TakeRefresh(r)
  PROVE  PageInv'
<1>1. /\ r \in Call /\ Carried(r) /\ r.kind \in {"refresh", "restore"} /\ r.stage = "sent"
      /\ live' = live \ {r.jar} /\ UNCHANGED <<tok, version, cookie, tab, used>>
  BY TokensAre DEF AuthInv, TakeRefresh
<1>2. CASE /\ r.jar \in live
           /\ Moved(r, [r EXCEPT !.stage = "taken", !.sv = tok[r.jar].sv, !.user = tok[r.jar].user])
  <2>1. PICK k : k = [r EXCEPT !.stage = "taken", !.sv = tok[r.jar].sv, !.user = tok[r.jar].user]
    OBVIOUS
  <2>2. /\ k.kind = r.kind /\ k.stage = "taken" /\ k.user = tok[r.jar].user
        /\ k.jar = r.jar /\ k.gen = r.gen /\ k.orphan = r.orphan
    BY <1>1, <2>1 DEF Call
  <2>3. net' = (net \ {r}) \cup {k} /\ ~Brings(k)
    BY <1>2, <2>1, <2>2 DEF Moved, Brings
  <2>4. QED
    BY <1>1, <1>2, <2>2, <2>3, MovedPage
<1>3. CASE r.jar \notin live \/ Moved(r, Answer(r, 0))
  <2>1. PICK k : k = Answer(r, 0)
    OBVIOUS
  <2>2. /\ k.kind = r.kind /\ k.stage = "answered" /\ k.token = 0 /\ k.jar = 0 /\ k.gen = r.gen
        /\ k.orphan = r.orphan /\ ~Brings(k)
    BY <1>1, <2>1, Answered DEF Brings
  <2>3. (net' = net \ {r} /\ r.orphan) \/ net' = (net \ {r}) \cup {k}
    BY <1>3, <2>1, <2>2 DEF TakeRefresh, Moved
  <2>4. QED
    BY <1>1, <2>2, <2>3, MovedPage
<1>4. QED
  BY <1>2, <1>3 DEF TakeRefresh

LEMMA ServedLogoutPage ==
  ASSUME AuthInv, NEW r \in net, ServeLogout(r)
  PROVE  PageInv'
<1>1. /\ r \in Call /\ Carried(r) /\ r.kind = "logout" /\ r.stage = "sent"
      /\ UNCHANGED <<tok, version, cookie, tab, used>> /\ live' \in {live, live \ {r.jar}}
  BY TokensAre DEF AuthInv, ServeLogout
<1>2. PICK token \in {0, 1} :
        /\ Moved(r, Answer(r, token))
        /\ r.access = 0 \/ tok[r.access].user = tok[r.jar].user => r.jar \notin live'
  BY DEF ServeLogout
<1>3. PICK k : k = Answer(r, token)
  OBVIOUS
<1>4. /\ k.kind = r.kind /\ k.stage = "answered" /\ k.jar = 0 /\ k.gen = r.gen
      /\ k.orphan = r.orphan /\ ~Brings(k)
  BY <1>1, <1>3, Answered DEF Brings
<1>5. (net' = net \ {r} /\ r.orphan) \/ net' = (net \ {r}) \cup {k}
  BY <1>2, <1>3, <1>4 DEF Moved
<1>6. QED
  BY <1>1, <1>2, <1>4, <1>5, MovedPage

-----------------------------------------------------------------------------
(* What the page hears.                                                    *)

\* A login, a refresh or a restore begins or goes on with a session; it is all there is to hear.
LEMMA EnteredPage ==
  ASSUME AuthInv, NEW r \in net, Brings(r), UNCHANGED <<tok, live, used>>,
         \A s \in net : Heard(s) => s = r,
         net' = net \ {r}, cookie' = r.token, tab'.access = r.token, tab'.user = r.user, ~tab'.left
  PROVE  PageInv'
<1>1. \A s \in net' : ~Heard(s) /\ s.orphan # FALSE
  <2>1. \A s \in net : s.orphan \in BOOLEAN
    BY TokensAre DEF AuthInv, Call
  <2>2. QED
    BY <2>1 DEF Heard
<1>2. \A s \in net' : ~Heard(s)' /\ ~Brings(s) /\ ~Revokes(s)
  BY <1>1, BringersAre, LogoutsAre DEF Heard, Revokes
<1>3. Listening' /\ Unseen' /\ Leaving'
  BY <1>2 DEF Listening, Unseen, Leaving
<1>4. r.token \in live /\ tok[r.token].user = r.user /\ \A s \in net : s.jar # r.token
  BY BringersAre
<1>5. InSession'
  BY <1>2, <1>4 DEF InSession, OneUser
<1>6. QED
  BY <1>3, <1>5 DEF PageInv

LEMMA BringsNow ==
  ASSUME AuthInv, NEW r \in net, Here(r), r.kind \in {"login", "refresh", "restore"},
         r.kind = "login" \/ r.token # 0
  PROVE  Brings(r) /\ Heard(r)
BY TokensAre DEF AuthInv, Here, Brings, Heard, Carried

LEMMA LoginDonePage ==
  ASSUME AuthInv, NEW r \in net, LoginDone(r)
  PROVE  PageInv'
<1>1. Brings(r) /\ Heard(r) /\ r.kind = "login"
  BY BringsNow DEF LoginDone
<1>2. \A s \in net : Heard(s) => s = r
  BY <1>1, ListeningKinds
<1>3. /\ UNCHANGED <<tok, live, used>> /\ net' = net \ {r} /\ cookie' = r.token
      /\ tab'.access = r.token /\ tab'.user = r.user /\ ~tab'.left
  BY DEF LoginDone
<1>4. QED
  BY <1>1, <1>2, <1>3, EnteredPage

LEMMA RefreshDonePage ==
  ASSUME AuthInv, NEW r \in net, RefreshDone(r)
  PROVE  PageInv'
<1>1. Brings(r) /\ Heard(r) /\ r.kind = "refresh" /\ tab.access # 0
  BY BringsNow DEF RefreshDone
<1>2. ~tab.left /\ r.user = tab.user
  BY <1>1 DEF AuthInv, PageInv, Listening, InSession
<1>3. \A s \in net : Heard(s) => s = r
  BY <1>1, <1>2, ListeningKinds
<1>4. /\ UNCHANGED <<tok, live, used>> /\ net' = net \ {r} /\ cookie' = r.token
      /\ tab' = [tab EXCEPT !.access = r.token]
  BY DEF RefreshDone
<1>5. tab'.access = r.token /\ tab'.user = r.user /\ ~tab'.left
  BY <1>2, <1>4, TokensAre DEF AuthInv, TabRow
<1>6. QED
  BY <1>1, <1>3, <1>4, <1>5, EnteredPage

LEMMA RestoreDonePage ==
  ASSUME AuthInv, NEW r \in net, RestoreDone(r)
  PROVE  PageInv'
<1>1. Brings(r) /\ Heard(r) /\ r.kind = "restore" /\ r.gen = tab.gen /\ r.token # 0 /\ r.stage = "answered"
  BY BringsNow DEF RestoreDone, Here
<1>2. ~tab.left /\ tab.access = 0
  BY <1>1, RestoresAre, ListeningKinds
<1>3. \A s \in net : Heard(s) => s = r
  BY <1>1, <1>2, ListeningKinds
<1>4. /\ UNCHANGED <<tok, live, used>> /\ net' = net \ {r} /\ cookie' = r.token
      /\ tab' = [tab EXCEPT !.access = r.token, !.user = r.user]
  BY DEF RestoreDone
<1>5. tab'.access = r.token /\ tab'.user = r.user /\ ~tab'.left
  BY <1>2, <1>4, TokensAre DEF AuthInv, TabRow
<1>6. QED
  BY <1>1, <1>3, <1>4, <1>5, EnteredPage

LEMMA LateAnswerPage ==
  ASSUME AuthInv, NEW r \in net, LateAnswer(r)
  PROVE  PageInv'
<1>1. /\ r.kind \in {"refresh", "restore"} /\ Brings(r) /\ Heard(r) /\ r.stage = "answered"
      /\ cookie' = r.token /\ UNCHANGED <<tok, live, tab, used>>
  BY BringsNow DEF LateAnswer, Here
<1>2. tab.access = 0 /\ tab.left
  BY <1>1, ListeningKinds DEF LateAnswer
<1>3. PICK k : k = LogoutRequest(r.token, r.token)
  OBVIOUS
<1>4. /\ net' = (net \ {r}) \cup {k} /\ k.kind = "logout" /\ k.stage = "sent" /\ k.jar = r.token
      /\ k.access = r.token
  BY <1>2, <1>3 DEF LateAnswer, LogoutRequest, Request
<1>5. \A s \in net : Heard(s) => s.kind # "login"
  BY <1>1, ListeningKinds
<1>6. Listening'
  BY <1>1, <1>2, <1>4, <1>5 DEF AuthInv, PageInv, Listening, Heard
<1>7. Unseen'
  <2>1. \A s \in net' : Brings(s) => s \in net /\ s # r /\ s.token # r.token
    BY <1>1, <1>4, BringersAre DEF Brings
  <2>2. QED
    BY <1>1, <1>4, <2>1, BringersAre DEF Unseen
<1>8. Leaving'
  <2>1. \A s \in net' : Revokes(s) /\ s.jar \in live => s.access = 0 \/ tok[s.access].user = tok[s.jar].user
    BY <1>4 DEF AuthInv, PageInv, Leaving
  <2>2. \A s \in net' : s.kind = "restore" /\ Heard(s)' => s \in net /\ Heard(s)
    BY <1>4 DEF Heard
  <2>3. Revokes(k) /\ k.jar = cookie'
    BY <1>1, <1>4 DEF Revokes
  <2>4. QED
    BY <1>1, <1>2, <1>4, <2>1, <2>2, <2>3, RestoresAre DEF Leaving
<1>9. InSession'
  BY <1>1, <1>2 DEF InSession
<1>10. QED
  BY <1>6, <1>7, <1>8, <1>9 DEF PageInv

\* An answer that brings nothing, out of a session.
LEMMA ForgottenAnswer ==
  ASSUME AuthInv, NEW r \in net, r.stage = "answered", tab.access = 0,
         UNCHANGED <<tok, live, tab, used>>, net' = net \ {r}, cookie' \in {0, cookie}
  PROVE  PageInv'
<1>1. 0 \notin live
  BY TokensAre DEF AuthInv
<1>2. Listening'
  BY DEF AuthInv, PageInv, Listening, Heard
<1>3. Unseen'
  BY BringersAre DEF Unseen
<1>4. Leaving'
  BY <1>1 DEF AuthInv, PageInv, Leaving, Revokes, Heard
<1>5. InSession'
  BY DEF InSession
<1>6. QED
  BY <1>2, <1>3, <1>4, <1>5 DEF PageInv

LEMMA SessionRefusedPage ==
  ASSUME AuthInv, NEW r \in net, SessionRefused(r)
  PROVE  PageInv'
<1>1. /\ Heard(r) /\ r.stage = "answered" /\ r.kind \in {"refresh", "restore"}
      /\ UNCHANGED <<tok, live, cookie, used>>
  BY DEF SessionRefused, Here, Heard
<1>2. CASE r.kind = "refresh" /\ tab.gen = r.gen /\ tab.access # 0
  <2>1. PICK k : k = LogoutRequest(tab.access, cookie)
    OBVIOUS
  <2>2. tab' = Forgotten /\ net' = (net \ {r}) \cup {k}
    BY <1>2, <2>1 DEF SessionRefused
  <2>3. \A s \in net : Heard(s) => s.kind # "login"
    BY <1>1, ListeningKinds
  <2>4. QED
    BY <1>1, <2>1, <2>2, <2>3, LeftPage
<1>3. CASE ~(r.kind = "refresh" /\ tab.gen = r.gen /\ tab.access # 0)
  <2>1. tab.access = 0
    BY <1>1, <1>3, ListeningKinds
  <2>2. net' = net \ {r} /\ UNCHANGED tab
    BY <1>3 DEF SessionRefused
  <2>3. QED
    BY <1>1, <2>1, <2>2, ForgottenAnswer
<1>4. QED
  BY <1>2, <1>3

LEMMA LogoutDonePage ==
  ASSUME AuthInv, NEW r \in net, LogoutDone(r)
  PROVE  PageInv'
<1>1. tab.access = 0
  BY LogoutsAre DEF LogoutDone
<1>2. QED
  BY <1>1, ForgottenAnswer DEF LogoutDone, Here

LEMMA AuthStep ==
  ASSUME AuthInv, Navigate = FALSE, [AuthNext]_authVars
  PROVE  AuthInv'
<1>1. TokensInv'
  BY TokensStep DEF AuthInv
<1>2. PageInv'
  <2>1. CASE UNCHANGED authVars
    BY <2>1 DEF authVars, AuthInv, PageInv, Listening, Unseen, Leaving, InSession, OneUser, Heard,
                Brings, Taken, Revokes
  <2>2. CASE Refresh \/ Restore \/ Logout \/ Reload
    BY <2>2, RefreshPage, RestorePage, LogoutPage, ReloadPage
  <2>3. ASSUME NEW u \in Users, Login(u) \/ Bump(u) PROVE PageInv'
    BY <2>3, LoginPage, BumpPage
  <2>4. ASSUME NEW r \in net, Serve(r) \/ Drop(r) PROVE PageInv'
    BY <2>4, IssuedPage, TakePage, ServedLogoutPage, DropPage DEF Serve
  <2>5. ASSUME NEW r \in net, Deliver(r) PROVE PageInv'
    BY <2>5, LoginDonePage, RefreshDonePage, RestoreDonePage, LateAnswerPage, SessionRefusedPage,
       LogoutDonePage DEF Deliver
  <2>6. QED
    BY <2>1, <2>2, <2>3, <2>4, <2>5 DEF AuthNext
<1>3. QED
  BY <1>1, <1>2 DEF AuthInv

\* The server's tokens, whatever the browser does and however its requests overtake each
\* other: every chain has one token that can be used, and a token keeps the session version
\* of the login it stems from (auth_service.py refresh_token_pair, revoke_tokens).
THEOREM TokensAreVoidedForGood == AuthSpec => []TokensVoid
<1>1. TokensInv /\ [AuthNext]_authVars => TokensInv'
  BY TokensStep
<1>2. TokensInv => TokensVoid
  <2>1. SUFFICES ASSUME TokensInv PROVE TokensVoid
    OBVIOUS
  <2>2. AuthTypeOK
    BY <2>1, TokensAre DEF AuthTypeOK, TokensInv, AuthType, Chains, TabRow
  <2>3. SingleUse /\ RevokedForGood
    BY <2>1, TokensAre DEF TokensInv, AuthType, Chains, RevokedForGood
  <2>4. QED
    BY <2>2, <2>3 DEF TokensVoid
<1>3. QED
  BY TokensBegin, <1>1, <1>2, PTL DEF AuthSpec

\* A page that restores no session while a login or a logout is under way keeps one user's
\* session at a time: a late answer brings none back, the cookie is the user's, and a login
\* is not undone by the answers of the session before it (auth.js, authRefreshCoordinator.js).
THEOREM SessionsAreApart ==
  ASSUME Navigate = FALSE
  PROVE  AuthSpec => []SessionsSound
<1>1. AuthInit => AuthInv
  <2>1. SUFFICES ASSUME AuthInit PROVE AuthInv
    OBVIOUS
  <2>2. net = {} /\ live = {} /\ tab.access = 0 /\ ~tab.left
    BY <2>1 DEF AuthInit, LoggedOut
  <2>3. PageInv
    BY <2>2 DEF PageInv, Listening, Unseen, Leaving, InSession
  <2>4. QED
    BY <2>1, <2>3, TokensBegin DEF AuthInv
<1>2. AuthInv /\ [AuthNext]_authVars => AuthInv'
  BY AuthStep
<1>3. AuthInv => SessionsApart
  <2>1. SUFFICES ASSUME AuthInv PROVE SessionsApart
    OBVIOUS
  <2>2. LoggedOutStays
    BY <2>1 DEF AuthInv, PageInv, Listening, Leaving, LoggedOutStays
  <2>3. OneUser /\ LoginKept
    BY <2>1 DEF AuthInv, PageInv, InSession, OneUser, LoginKept
  <2>4. QED
    BY <2>2, <2>3 DEF SessionsApart
<1>4. AuthSpec => []SessionsApart
  BY <1>1, <1>2, <1>3, PTL DEF AuthSpec
<1>5. SessionsApart /\ TokensVoid => SessionsSound
  BY DEF SessionsSound
<1>6. QED
  BY <1>4, <1>5, TokensAreVoidedForGood, PTL

-----------------------------------------------------------------------------
(* KernelSession                                                            *)

KernelSpec == KernelInit /\ [][KernelNext]_kernelVars

Envs == {"none", "own", "default"}
BoxRow == [st : {"absent", "up", "dead"}, env : Envs, init : BOOLEAN]
MemRow == [env : Envs, init : BOOLEAN]
KeysRow == [sess : Envs, init : BOOLEAN]
Backs == {"idle", "check", "execute", "rebuilt"}
Pcs == Backs \cup {"get", "remove", "run", "register", "running", "mark", "restart"}
RequestRow == [pc : Pcs, cell : {"user", "hidden"}, env : {"own", "default"}, back : Backs, in : BOOLEAN]
MishapRow == [timeouts : Nat, restarts : Nat, crashes : Nat, deaths : Nat]

KernelType ==
  /\ box \in BoxRow /\ mem \in MemRow /\ redis \in KeysRow
  /\ lock \in Requests \cup {"free", "dead"} /\ req \in [Requests -> RequestRow]
  /\ met \in BOOLEAN /\ mishaps \in MishapRow

\* Who runs code has the lock; the lock of one who rebuilds may have expired.
RunnersLocked == \A r \in Requests : At(r, "running") => lock = r

Sole == \A r, q \in Requests : ~At(r, "idle") /\ ~At(q, "idle") => r = q

\* What is known of the container is so, but for one that is not registered yet.
Undied == mishaps.deaths = 0
MemoryFits(registering) ==
  /\ Alive /\ ~registering =>
       (Remembered => box.env = mem.env) /\ (redis.sess # "none" => box.env = redis.sess)
  /\ mem.init => Remembered
  /\ Undied /\ (redis.init \/ mem.init) => Alive /\ box.init /\ redis.sess # "none"
MemoryRight == MemoryFits(\E r \in Requests : At(r, "register"))

\* How far a request has come, if no other is in progress.
Creating(row) ==
  row.pc \in {"remove", "run", "register"} =>
    /\ redis.sess = "none"
    /\ row.back \in {"check", "execute"} => row.env = "own"
    /\ row.back = "check" => row.cell = "hidden"
    /\ row.pc = "run" => box.st = "absent"
    /\ row.pc = "register" /\ Alive => box.env = row.env
    /\ Undied => ~redis.init /\ ~mem.init /\ (row.cell = "user" => row.back \in {"idle", "rebuilt"})
Executing(row) ==
  /\ row.pc \in {"check", "mark"} => row.cell = "hidden"
  /\ row.pc \in {"check", "execute", "running", "mark"} => mem.env = "own" /\ (Undied => Alive)
  /\ row.pc = "running" /\ row.in => Alive
  /\ Undied /\ row.pc \in {"get", "execute", "running"} /\ row.cell = "user" =>
       Alive /\ box.init /\ mem.env = "own"
  /\ Undied /\ row.pc = "mark" => box.init
Orderly == Sole /\ MemoryRight /\ \A r \in Requests : Creating(req[r]) /\ Executing(req[r])

KernelInv == KernelType /\ RunnersLocked /\ (~met => Orderly)

LEMMA Requested ==
  ASSUME KernelInv, NEW r \in Requests
  PROVE  /\ req[r] \in RequestRow /\ req \in [Requests -> RequestRow]
         /\ box \in BoxRow /\ mem \in MemRow /\ redis \in KeysRow /\ mishaps \in MishapRow
         /\ met \in BOOLEAN /\ lock \in Requests \cup {"free", "dead"}
BY DEF KernelInv, KernelType

LEMMA Empty == NoBox \in BoxRow /\ NoMem \in MemRow /\ NoKeys \in KeysRow /\ NoRequest \in RequestRow
BY DEF NoBox, NoMem, NoKeys, NoRequest, BoxRow, MemRow, KeysRow, RequestRow, Envs, Pcs, Backs

LEMMA RowAt ==
  ASSUME NEW t \in RequestRow, NEW pc \in Pcs
  PROVE  /\ [t EXCEPT !.pc = pc] \in RequestRow /\ [t EXCEPT !.pc = pc].pc = pc
         /\ [t EXCEPT !.pc = pc].cell = t.cell /\ [t EXCEPT !.pc = pc].env = t.env
         /\ [t EXCEPT !.pc = pc].back = t.back /\ [t EXCEPT !.pc = pc].in = t.in
BY DEF RequestRow

\* A request in progress takes a step.
LEMMA StepOf ==
  ASSUME KernelInv, NEW r \in Requests, ~At(r, "idle"),
         NEW new \in RequestRow, NEW gone \in BOOLEAN, Go(r, new, gone),
         NEW row \in RequestRow, row = [new EXCEPT !.in = @ /\ ~gone],
         box' \in BoxRow, mem' \in MemRow, redis' \in KeysRow, met' = met, mishaps' \in MishapRow,
         \/ lock' = lock
         \/ lock' = r /\ lock = "free"
         \/ lock' = "free" /\ lock = r,
         new.pc = "running" => lock' = r,
         ~met => MemoryFits(new.pc = "register")' /\ Creating(row)' /\ Executing(row)'
  PROVE  KernelInv'
<1>1. row.pc = new.pc
  BY DEF RequestRow
<1>2. /\ req' \in [Requests -> RequestRow] /\ req'[r] = row
      /\ \A q \in Requests : q # r => req'[q].pc = req[q].pc
  <2>1. req' = [q \in Requests |-> IF q = r THEN row ELSE [req[q] EXCEPT !.in = @ /\ ~gone]]
    BY DEF Go
  <2>2. \A q \in Requests : /\ [req[q] EXCEPT !.in = @ /\ ~gone] \in RequestRow
                            /\ [req[q] EXCEPT !.in = @ /\ ~gone].pc = req[q].pc
    BY Requested DEF RequestRow
  <2>3. QED
    BY <2>1, <2>2
<1>3. KernelType'
  <2>1. lock' \in Requests \cup {"free", "dead"}
    BY Requested
  <2>2. QED
    BY <1>2, <2>1, Requested DEF KernelType
<1>4. RunnersLocked'
  <2>1. SUFFICES ASSUME NEW q \in Requests, At(q, "running")' PROVE lock' = q
    BY DEF RunnersLocked
  <2>2. CASE q = r
    BY <1>1, <1>2, <2>1, <2>2 DEF At
  <2>3. CASE q # r
    BY <1>2, <2>1, <2>3, KernelAssumption DEF KernelInv, RunnersLocked, At
  <2>4. QED
    BY <2>2, <2>3
<1>5. ASSUME ~met PROVE Orderly'
  <2>1. \A q \in Requests : q # r => req[q].pc = "idle" /\ req'[q].pc = "idle"
    BY <1>2, <1>5 DEF KernelInv, Orderly, Sole, At
  <2>2. Sole'
    BY <2>1 DEF Sole, At
  <2>3. (\E q \in Requests : At(q, "register"))' <=> new.pc = "register"
    BY <1>1, <1>2, <2>1 DEF At
  <2>4. MemoryRight'
    BY <1>5, <2>3 DEF MemoryRight, MemoryFits
  <2>5. \A q \in Requests : (Creating(req[q]) /\ Executing(req[q]))'
    <3>1. SUFFICES ASSUME NEW q \in Requests PROVE (Creating(req[q]) /\ Executing(req[q]))'
      OBVIOUS
    <3>2. CASE q = r
      BY <1>2, <1>5, <3>2 DEF Creating, Executing
    <3>3. CASE q # r
      <4>1. req'[q].pc = "idle"
        BY <2>1, <3>3
      <4>2. QED
        BY <4>1 DEF Creating, Executing
    <3>4. QED
      BY <3>2, <3>3
  <2>6. QED
    BY <2>2, <2>4, <2>5 DEF Orderly
<1>6. QED
  BY <1>3, <1>4, <1>5 DEF KernelInv

\* What holds of a request in progress, if it is the only one.
LEMMA Alone == 
  ASSUME KernelInv, NEW r \in Requests, ~At(r, "idle"), ~met
  PROVE  MemoryFits(At(r, "register")) /\ Creating(req[r]) /\ Executing(req[r])
<1>1. Orderly
  BY DEF KernelInv
<1>2. (\E q \in Requests : At(q, "register")) <=> At(r, "register")
  BY <1>1 DEF Orderly, Sole, At
<1>3. MemoryFits(At(r, "register"))
  BY <1>1, <1>2 DEF Orderly, MemoryRight, MemoryFits
<1>4. QED
  BY <1>1, <1>3 DEF Orderly

\* The same, when nothing that runs is lost.
LEMMA StepOn ==
  ASSUME KernelInv, NEW r \in Requests, ~At(r, "idle"),
         NEW new \in RequestRow, Go(r, new, FALSE),
         box' \in BoxRow, mem' \in MemRow, redis' \in KeysRow, met' = met, mishaps' \in MishapRow,
         \/ lock' = lock
         \/ lock' = r /\ lock = "free"
         \/ lock' = "free" /\ lock = r,
         new.pc = "running" => lock' = r,
         ~met => MemoryFits(new.pc = "register")' /\ Creating(new)' /\ Executing(new)'
  PROVE  KernelInv'
<1>1. new = [new EXCEPT !.in = @ /\ ~FALSE]
  BY DEF RequestRow
<1>2. QED
  BY <1>1, StepOf

LEMMA Missed ==
  ASSUME KernelInv, NEW max
  PROVE  /\ Mishap("timeouts", max) => mishaps' \in MishapRow /\ mishaps'.deaths = mishaps.deaths
         /\ Mishap("restarts", max) => mishaps' \in MishapRow /\ mishaps'.deaths = mishaps.deaths
         /\ Mishap("crashes", max) => mishaps' \in MishapRow /\ mishaps'.deaths = mishaps.deaths
         /\ Mishap("deaths", max) => mishaps' \in MishapRow /\ mishaps'.deaths # 0
<1>1. mishaps \in MishapRow
  BY DEF KernelInv, KernelType
<1>2. Mishap("timeouts", max) => mishaps' \in MishapRow /\ mishaps'.deaths = mishaps.deaths
  BY <1>1 DEF Mishap, MishapRow
<1>3. Mishap("restarts", max) => mishaps' \in MishapRow /\ mishaps'.deaths = mishaps.deaths
  BY <1>1 DEF Mishap, MishapRow
<1>4. Mishap("crashes", max) => mishaps' \in MishapRow /\ mishaps'.deaths = mishaps.deaths
  BY <1>1 DEF Mishap, MishapRow
<1>5. Mishap("deaths", max) => mishaps' \in MishapRow /\ mishaps'.deaths # 0
  BY <1>1 DEF Mishap, MishapRow
<1>6. QED
  BY <1>2, <1>3, <1>4, <1>5

\* Destroyed: nothing is known of a kernel any more.
LEMMA Gone ==
  ASSUME KernelInv, Destroyed
  PROVE  /\ box' \in BoxRow /\ mem' \in MemRow /\ redis' \in KeysRow
         /\ mem'.env = "none" /\ ~mem'.init /\ redis'.sess = "none" /\ ~redis'.init
         /\ \A registering : MemoryFits(registering)'
<1>1. /\ box' \in BoxRow /\ mem' \in MemRow /\ redis' \in KeysRow
      /\ mem'.env = "none" /\ mem'.init = FALSE /\ redis'.sess = "none" /\ redis'.init = FALSE
  BY Empty DEF Destroyed, KernelInv, KernelType, NoBox, NoMem, NoKeys
<1>2. QED
  BY <1>1 DEF MemoryFits, Remembered

\* A request begins.
LEMMA Starts ==
  ASSUME KernelInv, NEW r \in Requests, NEW new \in RequestRow, Start(r, new),
         (new.pc = "get" /\ new.cell = "hidden") \/ new.pc = "restart",
         UNCHANGED <<box, mem, redis, lock>>, mishaps' \in MishapRow, mishaps'.deaths = mishaps.deaths
  PROVE  KernelInv'
<1>1. /\ req' \in [Requests -> RequestRow] /\ req'[r] = new
      /\ \A q \in Requests : q # r => req'[q] = req[q]
      /\ met' = (met \/ \E q \in Requests : ~At(q, "idle")) /\ met' \in BOOLEAN
  BY Requested DEF Start, KernelInv, KernelType
<1>2. KernelType'
  BY <1>1, Requested DEF KernelType
<1>3. RunnersLocked'
  BY <1>1 DEF KernelInv, RunnersLocked, At
<1>4. ASSUME ~met' PROVE Orderly'
  <2>1. Orderly /\ \A q \in Requests : At(q, "idle")
    BY <1>1, <1>4 DEF KernelInv
  <2>2. /\ \A q \in Requests : q # r => req'[q].pc = "idle"
        /\ \A q \in Requests : req'[q].pc # "register" /\ req[q].pc # "register"
    BY <1>1, <2>1 DEF At
  <2>3. Sole'
    BY <2>2 DEF Sole, At
  <2>4. MemoryRight'
    BY <2>1, <2>2 DEF Orderly, MemoryRight, MemoryFits, At, Alive, Remembered, Undied
  <2>5. \A q \in Requests : (Creating(req[q]) /\ Executing(req[q]))'
    BY <1>1, <2>2 DEF Creating, Executing
  <2>6. QED
    BY <2>3, <2>4, <2>5 DEF Orderly
<1>5. QED
  BY <1>2, <1>3, <1>4 DEF KernelInv

LEMMA Begins ==
  ASSUME KernelInv, NEW r \in Requests, ExecuteCell(r) \/ Restart(r)
  PROVE  KernelInv'
<1>1. CASE ExecuteCell(r)
  <2>1. PICK new : new = [NoRequest EXCEPT !.pc = "get", !.cell = "hidden"]
    OBVIOUS
  <2>2. new \in RequestRow /\ new.pc = "get" /\ new.cell = "hidden"
    BY <2>1, Empty DEF NoRequest, RequestRow, Pcs, Backs
  <2>3. Start(r, new) /\ UNCHANGED <<box, mem, redis, lock, mishaps>>
    BY <1>1, <2>1 DEF ExecuteCell
  <2>4. QED
    BY <2>2, <2>3, Requested, Starts
<1>2. CASE Restart(r)
  <2>1. PICK new : new = [NoRequest EXCEPT !.pc = "restart"]
    OBVIOUS
  <2>2. new \in RequestRow /\ new.pc = "restart"
    BY <2>1, Empty DEF NoRequest, RequestRow, Pcs, Backs
  <2>3. /\ Start(r, new) /\ UNCHANGED <<box, mem, redis, lock>>
        /\ mishaps' \in MishapRow /\ mishaps'.deaths = mishaps.deaths
    BY <1>2, <2>1, Missed DEF Restart
  <2>4. QED
    BY <2>2, <2>3, Starts
<1>3. QED
  BY <1>1, <1>2

\* What a request goes on as.
LEMMA Goes ==
  ASSUME KernelInv, NEW r \in Requests, NEW pc \in Pcs
  PROVE  /\ To(r, pc) \in RequestRow /\ To(r, pc).pc = pc /\ To(r, pc).cell = req[r].cell
         /\ To(r, pc).env = req[r].env /\ To(r, pc).back = req[r].back /\ To(r, pc).in = req[r].in
BY Requested, RowAt DEF To

\* A kernel is to be created.
LEMMA Creates ==
  ASSUME KernelInv, NEW r \in Requests, ~At(r, "idle"), NEW env \in {"own", "default"}, NEW back \in Backs,
         NEW gone \in BOOLEAN, Go(r, Create(r, env, back), gone),
         box' \in BoxRow, mem' \in MemRow, redis' \in KeysRow, met' = met, mishaps' \in MishapRow,
         lock' = lock, redis'.sess = "none",
         back \in {"check", "execute"} => env = "own",
         back = "check" => req[r].cell = "hidden",
         ~met => /\ MemoryFits(FALSE)'
                 /\ Undied' => /\ ~redis'.init /\ ~mem'.init
                               /\ req[r].cell = "user" => back \in {"idle", "rebuilt"}
  PROVE  KernelInv'
<1>1. PICK new : new = [req[r] EXCEPT !.pc = "remove", !.env = env, !.back = back]
  OBVIOUS
<1>2. new \in RequestRow /\ new.pc = "remove" /\ new.env = env /\ new.back = back /\ new.cell = req[r].cell
  BY <1>1, Requested DEF RequestRow, Pcs
<1>3. PICK row : row = [new EXCEPT !.in = @ /\ ~gone]
  OBVIOUS
<1>4. /\ row \in RequestRow /\ row.pc = "remove" /\ row.env = env /\ row.back = back
      /\ row.cell = req[r].cell
  BY <1>2, <1>3 DEF RequestRow
<1>5. Go(r, new, gone)
  BY <1>1 DEF Create
<1>6. ~met => MemoryFits(FALSE)' /\ Creating(row)' /\ Executing(row)'
  BY <1>4 DEF Creating, Executing
<1>7. ~met => MemoryFits(new.pc = "register")'
  BY <1>2, <1>6 DEF MemoryFits
<1>8. QED
  BY <1>2, <1>3, <1>4, <1>5, <1>6, <1>7, StepOf

LEMMA GotIs ==
  ASSUME KernelInv, NEW r \in Requests
  PROVE  /\ \/ Got(r) = "check" /\ req[r].cell = "hidden"
            \/ Got(r) = "execute" /\ req[r].cell = "user"
         /\ Got(r) \in Backs /\ Got(r) \in Pcs
<1>1. req[r].cell \in {"user", "hidden"}
  BY Requested DEF RequestRow
<1>2. QED
  BY <1>1 DEF Got, Backs, Pcs

LEMMA ReuseKeeps == ASSUME KernelInv, NEW r \in Requests, Reuse(r) PROVE KernelInv'
<1>1. /\ At(r, "get") /\ ~At(r, "idle") /\ Alive /\ Go(r, To(r, Got(r)), FALSE)
      /\ UNCHANGED <<box, redis, lock, met, mishaps>>
  BY DEF Reuse, Stay, At
<1>2. PICK new \in RequestRow :
        /\ new = To(r, Got(r)) /\ new.pc = Got(r) /\ new.cell = req[r].cell
  BY GotIs, Goes
<1>3. mem' \in MemRow /\ mem'.env = "own"
  BY Requested, Empty DEF Reuse, NoMem, MemRow, Envs
<1>4. ASSUME ~met PROVE MemoryFits(FALSE)' /\ Creating(new)' /\ Executing(new)'
  <2>1. MemoryFits(FALSE) /\ Executing(req[r])
    BY <1>1, <1>4, Alone DEF At, MemoryFits
  <2>2. CASE Remembered
    <3>1. mem' = mem
      BY <2>2 DEF Reuse
    <3>2. MemoryFits(FALSE)'
      BY <1>1, <2>1, <3>1 DEF MemoryFits, Alive, Remembered, Undied
    <3>3. QED
      BY <1>1, <1>2, <1>3, <2>1, <3>1, <3>2, GotIs DEF Creating, Executing, Alive, Undied, At
  <2>3. CASE ~Remembered
    <3>1. redis.sess = "own" /\ mem' = [NoMem EXCEPT !.env = "own"]
      BY <2>3 DEF Reuse
    <3>2. mem'.env = "own" /\ mem'.init = FALSE
      BY <3>1 DEF NoMem
    <3>3. MemoryFits(FALSE)'
      BY <1>1, <2>1, <3>1, <3>2 DEF MemoryFits, Alive, Remembered, Undied
    <3>4. QED
      BY <1>1, <1>2, <1>3, <2>1, <3>3, GotIs DEF Creating, Executing, Alive, Undied, At
  <2>4. QED
    BY <2>2, <2>3
<1>5. new.pc # "register" /\ new.pc # "running"
  BY <1>2, GotIs
<1>6. ~met => MemoryFits(new.pc = "register")' /\ Creating(new)' /\ Executing(new)'
  BY <1>4, <1>5 DEF MemoryFits
<1>7. QED
  BY <1>1, <1>2, <1>3, <1>5, <1>6, Requested, StepOn

LEMMA RebuildKeeps == ASSUME KernelInv, NEW r \in Requests, Rebuild(r) PROVE KernelInv'
<1>1. /\ At(r, "get") /\ ~At(r, "idle") /\ Alive /\ "own" # (IF Remembered THEN mem.env ELSE redis.sess)
      /\ Destroyed /\ Go(r, Create(r, "own", Got(r)), Remembered) /\ UNCHANGED <<lock, met, mishaps>>
  BY DEF Rebuild, At
<1>2. Remembered \in BOOLEAN
  BY DEF Remembered
<1>3. ASSUME ~met, Undied PROVE req[r].cell # "user"
  <2>1. Executing(req[r])
    BY <1>1, <1>3, Alone
  <2>2. req[r].cell = "user" => mem.env = "own"
    BY <1>1, <1>3, <2>1 DEF Executing, At
  <2>3. QED
    BY <1>1, <2>2 DEF Remembered
<1>4. Undied' => Undied
  BY <1>1 DEF Undied
<1>5. QED
  BY <1>1, <1>2, <1>3, <1>4, Gone, GotIs, Requested, Creates

LEMMA CreateNewKeeps == ASSUME KernelInv, NEW r \in Requests, CreateNew(r) PROVE KernelInv'
<1>1. /\ At(r, "get") /\ ~At(r, "idle") /\ (~Alive \/ (~Remembered /\ redis.sess = "none"))
      /\ redis' = [redis EXCEPT !.sess = "none"]
      /\ Go(r, Create(r, "own", Got(r)), FALSE) /\ UNCHANGED <<box, mem, lock, met, mishaps>>
  BY DEF CreateNew, At
<1>2. redis' \in KeysRow /\ redis'.sess = "none" /\ redis'.init = redis.init
  BY <1>1, Requested DEF KeysRow, Envs
<1>3. ASSUME ~met
      PROVE  /\ MemoryFits(FALSE)'
             /\ Undied' => ~redis'.init /\ ~mem'.init /\ req[r].cell # "user"
  <2>1. MemoryFits(FALSE) /\ Executing(req[r])
    BY <1>1, <1>3, Alone DEF At, MemoryFits
  <2>2. Undied => ~redis.init /\ ~mem.init
    BY <1>1, <2>1 DEF MemoryFits
  <2>3. MemoryFits(FALSE)'
    BY <1>1, <1>2, <2>1, <2>2 DEF MemoryFits, Alive, Remembered, Undied
  <2>4. Undied => req[r].cell # "user"
    BY <1>1, <2>1 DEF Executing, At, Remembered
  <2>5. QED
    BY <1>1, <1>2, <2>2, <2>3, <2>4 DEF Undied
<1>4. QED
  BY <1>1, <1>2, <1>3, GotIs, Requested, Creates

LEMMA TimeOutKeeps ==
  ASSUME KernelInv, NEW r \in Requests, TimeOut(r) \/ RestartDestroys(r)
  PROVE  KernelInv'
<1>1. PICK env \in {"own", "default"}, back \in {"idle", "rebuilt"} :
        Go(r, Create(r, env, back), Remembered)
  <2>1. mem.env \in Envs
    BY Requested DEF MemRow
  <2>2. CASE TimeOut(r)
    BY <2>2 DEF TimeOut
  <2>3. CASE RestartDestroys(r)
    BY <2>1, <2>3 DEF RestartDestroys, Remembered, Envs
  <2>4. QED
    BY <2>2, <2>3
<1>2. /\ ~At(r, "idle") /\ Destroyed /\ lock' = lock /\ met' = met /\ mishaps' \in MishapRow
  BY Missed, Requested DEF TimeOut, RestartDestroys, At
<1>3. Remembered \in BOOLEAN /\ back \in Backs /\ back \notin {"check", "execute"}
  BY DEF Remembered, Backs
<1>4. QED
  BY <1>1, <1>2, <1>3, Gone, Creates

LEMMA RemoveKeeps == ASSUME KernelInv, NEW r \in Requests, Remove(r) PROVE KernelInv'
<1>1. /\ At(r, "remove") /\ ~At(r, "idle") /\ box' = NoBox /\ Go(r, To(r, "run"), TRUE)
      /\ UNCHANGED <<mem, redis, lock, met, mishaps>>
  BY DEF Remove, At
<1>2. PICK new \in RequestRow :
        /\ new = To(r, "run") /\ new.pc = "run" /\ new.cell = req[r].cell
        /\ new.env = req[r].env /\ new.back = req[r].back
  BY Goes DEF Pcs
<1>3. PICK row : row = [new EXCEPT !.in = @ /\ ~TRUE]
  OBVIOUS
<1>4. /\ row \in RequestRow /\ row.pc = "run" /\ row.cell = req[r].cell
      /\ row.env = req[r].env /\ row.back = req[r].back
  BY <1>2, <1>3 DEF RequestRow
<1>5. box' \in BoxRow /\ ~Alive' /\ box'.st = "absent"
  BY <1>1, Empty DEF NoBox, Alive
<1>6. ASSUME ~met PROVE MemoryFits(new.pc = "register")' /\ Creating(row)' /\ Executing(row)'
  <2>1. MemoryFits(FALSE) /\ Creating(req[r])
    BY <1>1, <1>6, Alone DEF At, MemoryFits
  <2>2. /\ redis.sess = "none" /\ (Undied => ~redis.init /\ ~mem.init)
        /\ req[r].back \in {"check", "execute"} => req[r].env = "own"
        /\ req[r].back = "check" => req[r].cell = "hidden"
        /\ Undied => (req[r].cell = "user" => req[r].back \in {"idle", "rebuilt"})
    BY <1>1, <2>1 DEF Creating, At
  <2>3. MemoryFits(new.pc = "register")'
    BY <1>1, <1>5, <2>1, <2>2 DEF MemoryFits, Remembered, Undied
  <2>4. Creating(row)'
    BY <1>1, <1>4, <1>5, <2>2 DEF Creating, Undied
  <2>5. QED
    BY <1>4, <2>3, <2>4 DEF Executing
<1>7. new.pc # "running"
  BY <1>2
<1>8. Go(r, new, TRUE)
  BY <1>1, <1>2
<1>9. QED
  BY <1>1, <1>2, <1>3, <1>4, <1>5, <1>6, <1>7, <1>8, Requested, StepOf

LEMMA RunKeeps == ASSUME KernelInv, NEW r \in Requests, Run(r) PROVE KernelInv'
<1>1. /\ At(r, "run") /\ ~At(r, "idle") /\ Go(r, To(r, "register"), FALSE)
      /\ box' = [st |-> "up", env |-> req[r].env, init |-> FALSE]
      /\ UNCHANGED <<mem, redis, lock, met, mishaps>>
  BY DEF Run, Stay, At
<1>2. PICK new \in RequestRow :
        /\ new = To(r, "register") /\ new.pc = "register" /\ new.cell = req[r].cell
        /\ new.env = req[r].env /\ new.back = req[r].back
  BY Goes DEF Pcs
<1>3. box' \in BoxRow /\ box'.env = req[r].env /\ Alive'
  BY <1>1, Requested DEF BoxRow, RequestRow, Envs, Alive
<1>4. ASSUME ~met PROVE MemoryFits(new.pc = "register")' /\ Creating(new)' /\ Executing(new)'
  <2>1. MemoryFits(FALSE) /\ Creating(req[r])
    BY <1>1, <1>4, Alone DEF At, MemoryFits
  <2>2. /\ redis.sess = "none" /\ (Undied => ~redis.init /\ ~mem.init)
        /\ req[r].back \in {"check", "execute"} => req[r].env = "own"
        /\ req[r].back = "check" => req[r].cell = "hidden"
        /\ Undied => (req[r].cell = "user" => req[r].back \in {"idle", "rebuilt"})
    BY <1>1, <2>1 DEF Creating, At
  <2>3. MemoryFits(new.pc = "register")'
    BY <1>1, <1>2, <2>1, <2>2 DEF MemoryFits, Remembered, Undied
  <2>4. Creating(new)'
    BY <1>1, <1>2, <1>3, <2>2 DEF Creating, Undied
  <2>5. QED
    BY <1>2, <2>3, <2>4 DEF Executing
<1>5. Go(r, new, FALSE) /\ new.pc # "running"
  BY <1>1, <1>2
<1>6. QED
  BY <1>1, <1>2, <1>3, <1>4, <1>5, Requested, StepOn

LEMMA RegisterKeeps == ASSUME KernelInv, NEW r \in Requests, Register(r) PROVE KernelInv'
<1>1. /\ At(r, "register") /\ ~At(r, "idle") /\ Alive /\ Go(r, To(r, req[r].back), FALSE)
      /\ mem' = [env |-> req[r].env, init |-> FALSE]
      /\ redis' = [redis EXCEPT !.sess = req[r].env]
      /\ UNCHANGED <<box, lock, met, mishaps>>
  BY DEF Register, Stay, At
<1>2. req[r].back \in Backs /\ req[r].back \in Pcs /\ req[r].env \in {"own", "default"}
  BY Requested DEF RequestRow, Pcs
<1>3. PICK new \in RequestRow :
        /\ new = To(r, req[r].back) /\ new.pc = req[r].back /\ new.cell = req[r].cell
  BY <1>2, Goes
<1>4. /\ mem' \in MemRow /\ mem'.env = req[r].env /\ mem'.init = FALSE
      /\ redis' \in KeysRow /\ redis'.sess = req[r].env /\ redis'.init = redis.init
  BY <1>1, <1>2, Requested DEF MemRow, KeysRow, Envs
<1>5. new.pc \in {"idle", "check", "execute", "rebuilt"}
  BY <1>2, <1>3 DEF Backs
<1>6. ASSUME ~met PROVE MemoryFits(new.pc = "register")' /\ Creating(new)' /\ Executing(new)'
  <2>1. Creating(req[r])
    BY <1>1, <1>6, Alone
  <2>2. /\ (Undied => ~redis.init) /\ box.env = req[r].env
        /\ req[r].back \in {"check", "execute"} => req[r].env = "own"
        /\ req[r].back = "check" => req[r].cell = "hidden"
        /\ Undied => (req[r].cell = "user" => req[r].back \in {"idle", "rebuilt"})
    BY <1>1, <2>1 DEF Creating, At
  <2>3. MemoryFits(new.pc = "register")'
    BY <1>1, <1>4, <2>2 DEF MemoryFits, Remembered, Undied, Alive
  <2>4. Executing(new)'
    BY <1>1, <1>3, <1>4, <1>5, <2>2 DEF Executing, Undied, Alive
  <2>5. QED
    BY <1>5, <2>3, <2>4 DEF Creating
<1>7. Go(r, new, FALSE) /\ new.pc # "running"
  BY <1>1, <1>3, <1>5
<1>8. QED
  BY <1>1, <1>3, <1>4, <1>6, <1>7, Requested, StepOn

LEMMA CreateFailsKeeps == ASSUME KernelInv, NEW r \in Requests, CreateFails(r) PROVE KernelInv'
<1>1. PICK pc \in {"rebuilt", "idle"} :
        /\ Go(r, To(r, pc), FALSE) /\ UNCHANGED <<box, mem, redis, lock, met, mishaps>>
        /\ ~At(r, "idle") /\ (At(r, "run") \/ (At(r, "register") /\ ~Alive))
  <2>1. (IF req[r].back = "rebuilt" THEN "rebuilt" ELSE "idle") \in {"rebuilt", "idle"}
    OBVIOUS
  <2>2. At(r, "run") \/ (At(r, "register") /\ ~Alive)
    BY DEF CreateFails
  <2>3. ~At(r, "idle")
    BY <2>2 DEF At
  <2>4. QED
    BY <2>1, <2>2, <2>3 DEF CreateFails, Stay
<1>2. PICK new \in RequestRow : new = To(r, pc) /\ new.pc = pc
  BY Goes DEF Pcs, Backs
<1>3. ASSUME ~met PROVE MemoryFits(new.pc = "register")' /\ Creating(new)' /\ Executing(new)'
  <2>1. MemoryFits(At(r, "register"))
    BY <1>1, <1>3, Alone
  <2>2. MemoryFits(FALSE)
    BY <1>1, <2>1 DEF MemoryFits, At
  <2>3. MemoryFits(new.pc = "register")'
    BY <1>1, <1>2, <2>2 DEF MemoryFits, Alive, Remembered, Undied
  <2>4. QED
    BY <1>2, <2>3 DEF Creating, Executing
<1>4. Go(r, new, FALSE) /\ new.pc # "running"
  BY <1>1, <1>2
<1>5. QED
  BY <1>1, <1>2, <1>3, <1>4, Requested, StepOn

LEMMA CheckInitKeeps == ASSUME KernelInv, NEW r \in Requests, CheckInit(r) PROVE KernelInv'
<1>1. At(r, "check") /\ ~At(r, "idle") /\ UNCHANGED <<box, mem, redis, lock, met, mishaps>>
  BY DEF CheckInit, At
<1>2. ASSUME ~met PROVE MemoryFits(FALSE)' /\ mem.env = "own" /\ req[r].cell = "hidden" /\ (Undied => Alive)
  <2>1. MemoryFits(FALSE) /\ Executing(req[r])
    BY <1>1, <1>2, Alone DEF At, MemoryFits
  <2>2. MemoryFits(FALSE)'
    BY <1>1, <2>1 DEF MemoryFits, Alive, Remembered, Undied
  <2>3. QED
    BY <1>1, <2>1, <2>2 DEF Executing, At
<1>3. CASE redis.init \/ mem.init
  <2>1. PICK at : at = To(r, "get")
    OBVIOUS
  <2>2. at \in RequestRow /\ at.pc = "get"
    BY <2>1, Goes DEF Pcs
  <2>3. PICK new : new = [at EXCEPT !.cell = "user"]
    OBVIOUS
  <2>4. new \in RequestRow /\ new.pc = "get" /\ new.cell = "user"
    BY <2>2, <2>3 DEF RequestRow
  <2>5. Go(r, new, FALSE)
    BY <1>3, <2>1, <2>3 DEF CheckInit
  <2>6. ASSUME ~met PROVE MemoryFits(new.pc = "register")' /\ Creating(new)' /\ Executing(new)'
    <3>1. MemoryFits(FALSE)
      BY <1>1, <2>6, Alone DEF At, MemoryFits
    <3>2. Undied => Alive /\ box.init
      BY <1>3, <3>1 DEF MemoryFits
    <3>3. MemoryFits(new.pc = "register")'
      BY <1>2, <2>6, <2>4 DEF MemoryFits
    <3>4. QED
      BY <1>1, <1>2, <2>4, <2>6, <3>2, <3>3 DEF Creating, Executing, Undied, Alive
  <2>7. new.pc # "running"
    BY <2>4
  <2>8. QED
    BY <1>1, <2>4, <2>5, <2>6, <2>7, Requested, StepOn
<1>4. CASE ~(redis.init \/ mem.init)
  <2>1. PICK new \in RequestRow : new = To(r, "execute") /\ new.pc = "execute" /\ new.cell = req[r].cell
    BY Goes DEF Pcs, Backs
  <2>2. Go(r, new, FALSE) /\ new.pc # "running"
    BY <1>4, <2>1 DEF CheckInit, Stay
  <2>3. ASSUME ~met PROVE MemoryFits(new.pc = "register")' /\ Creating(new)' /\ Executing(new)'
    <3>1. MemoryFits(new.pc = "register")'
      BY <1>2, <2>1, <2>3 DEF MemoryFits
    <3>2. QED
      BY <1>1, <1>2, <2>1, <2>3, <3>1 DEF Creating, Executing, Undied, Alive
  <2>4. QED
    BY <1>1, <2>1, <2>2, <2>3, Requested, StepOn
<1>5. QED
  BY <1>3, <1>4

LEMMA ExecuteKeeps == ASSUME KernelInv, NEW r \in Requests, Execute(r) PROVE KernelInv'
<1>1. /\ At(r, "execute") /\ ~At(r, "idle") /\ Remembered /\ Alive /\ lock = "free" /\ lock' = r
      /\ UNCHANGED <<box, mem, redis, met, mishaps>>
  BY DEF Execute, At
<1>2. PICK at : at = To(r, "running")
  OBVIOUS
<1>3. at \in RequestRow /\ at.pc = "running" /\ at.cell = req[r].cell
  BY <1>2, Goes DEF Pcs
<1>4. PICK new : new = [at EXCEPT !.in = TRUE]
  OBVIOUS
<1>5. new \in RequestRow /\ new.pc = "running" /\ new.cell = req[r].cell
  BY <1>3, <1>4 DEF RequestRow
<1>6. Go(r, new, FALSE)
  BY <1>2, <1>4 DEF Execute
<1>7. ASSUME ~met PROVE MemoryFits(new.pc = "register")' /\ Creating(new)' /\ Executing(new)'
  <2>1. MemoryFits(FALSE) /\ Executing(req[r])
    BY <1>1, <1>7, Alone DEF At, MemoryFits
  <2>2. MemoryFits(new.pc = "register")'
    BY <1>1, <1>5, <2>1 DEF MemoryFits, Alive, Remembered, Undied
  <2>3. Executing(new)'
    BY <1>1, <1>5, <2>1 DEF Executing, At, Alive, Undied
  <2>4. QED
    BY <1>5, <2>2, <2>3 DEF Creating
<1>8. QED
  BY <1>1, <1>5, <1>6, <1>7, Requested, StepOn

\* A request is refused or fails.
LEMMA GivesUp ==
  ASSUME KernelInv, NEW r \in Requests, GiveUp(r),
         At(r, "execute") \/ At(r, "running") \/ At(r, "rebuilt") \/ At(r, "mark"),
         lock' = lock \/ (lock' = "free" /\ lock = r), met' = met, mishaps' = mishaps
  PROVE  KernelInv'
<1>1. ~At(r, "idle") /\ ~At(r, "register")
  BY DEF At
<1>2. PICK new \in RequestRow : new = To(r, "idle") /\ new.pc = "idle"
  BY Goes DEF Pcs, Backs
<1>3. \A row : row.pc = "idle" => (Creating(row) /\ Executing(row))'
  BY DEF Creating, Executing
<1>4. new.pc # "running"
  BY <1>2
<1>5. CASE req[r].cell = "hidden"
  <2>1. Destroyed /\ Go(r, new, Remembered)
    BY <1>2, <1>5 DEF GiveUp
  <2>2. PICK row : row = [new EXCEPT !.in = @ /\ ~Remembered]
    OBVIOUS
  <2>3. row \in RequestRow /\ row.pc = "idle"
    BY <1>2, <2>2 DEF RequestRow
  <2>4. Remembered \in BOOLEAN
    BY DEF Remembered
  <2>5. MemoryFits(new.pc = "register")'
    BY <1>2, <2>1, Gone DEF MemoryFits
  <2>6. Creating(row)' /\ Executing(row)'
    BY <1>3, <2>3
  <2>7. QED
    BY <1>1, <1>4, <2>1, <2>2, <2>3, <2>4, <2>5, <2>6, Gone, Requested, StepOf
<1>6. CASE req[r].cell # "hidden"
  <2>1. Go(r, new, FALSE) /\ UNCHANGED <<box, mem, redis>>
    BY <1>2, <1>6 DEF GiveUp, Stay
  <2>2. ASSUME ~met PROVE MemoryFits(new.pc = "register")'
    <3>1. MemoryFits(FALSE)
      BY <1>1, <2>2, Alone DEF MemoryFits
    <3>2. QED
      BY <1>2, <2>1, <3>1 DEF MemoryFits, Alive, Remembered, Undied
  <2>3. Creating(new)' /\ Executing(new)'
    BY <1>2, <1>3
  <2>4. QED
    BY <1>1, <1>4, <2>1, <2>2, <2>3, Requested, StepOn
<1>7. QED
  BY <1>5, <1>6

LEMMA FailuresKeep ==
  ASSUME KernelInv, NEW r \in Requests, Refuse(r) \/ RunnerFails(r) \/ Rebuilt(r) \/ MarkFails(r)
  PROVE  KernelInv'
<1>1. /\ GiveUp(r) /\ met' = met /\ mishaps' = mishaps
      /\ At(r, "execute") \/ At(r, "running") \/ At(r, "rebuilt") \/ At(r, "mark")
  BY DEF Refuse, RunnerFails, Rebuilt, MarkFails
<1>2. lock' = lock \/ (lock' = "free" /\ lock = r)
  BY DEF Refuse, RunnerFails, Rebuilt, MarkFails, Unlock
<1>3. QED
  BY <1>1, <1>2, GivesUp

LEMMA FinishKeeps == ASSUME KernelInv, NEW r \in Requests, Finish(r) PROVE KernelInv'
<1>1. /\ At(r, "running") /\ ~At(r, "idle") /\ req[r].in /\ UNCHANGED <<mem, redis, met, mishaps>>
      /\ lock' = lock \/ (lock' = "free" /\ lock = r)
  BY DEF Finish, At, Unlock
<1>2. ASSUME ~met PROVE MemoryFits(FALSE) /\ Executing(req[r]) /\ mem.env = "own" /\ Alive
  BY <1>1, <1>2, Alone DEF At, MemoryFits, Executing
<1>3. CASE req[r].cell = "hidden"
  <2>1. PICK at : at = To(r, "mark")
    OBVIOUS
  <2>2. at \in RequestRow /\ at.pc = "mark" /\ at.cell = "hidden"
    BY <1>3, <2>1, Goes DEF Pcs
  <2>3. PICK new : new = [at EXCEPT !.in = FALSE]
    OBVIOUS
  <2>4. new \in RequestRow /\ new.pc = "mark" /\ new.cell = "hidden" /\ new.pc # "running"
    BY <2>2, <2>3 DEF RequestRow
  <2>5. Go(r, new, FALSE) /\ box' = [box EXCEPT !.init = TRUE]
    BY <1>3, <2>1, <2>3 DEF Finish
  <2>6. box' \in BoxRow /\ box'.st = box.st /\ box'.env = box.env /\ box'.init = TRUE
    BY <2>5, Requested DEF BoxRow
  <2>7. ASSUME ~met PROVE MemoryFits(new.pc = "register")' /\ Creating(new)' /\ Executing(new)'
    <3>1. MemoryFits(new.pc = "register")'
      BY <1>1, <1>2, <2>4, <2>6, <2>7 DEF MemoryFits, Alive, Remembered, Undied
    <3>2. Executing(new)'
      BY <1>1, <1>2, <2>4, <2>6, <2>7 DEF Executing, Alive
    <3>3. QED
      BY <2>4, <3>1, <3>2 DEF Creating
  <2>8. QED
    BY <1>1, <2>4, <2>5, <2>6, <2>7, Requested, StepOn
<1>4. CASE req[r].cell # "hidden"
  <2>1. PICK at : at = To(r, "idle")
    OBVIOUS
  <2>2. at \in RequestRow /\ at.pc = "idle"
    BY <2>1, Goes DEF Pcs, Backs
  <2>3. PICK new : new = [at EXCEPT !.in = FALSE]
    OBVIOUS
  <2>4. new \in RequestRow /\ new.pc = "idle" /\ new.pc # "running"
    BY <2>2, <2>3 DEF RequestRow
  <2>5. Go(r, new, FALSE) /\ box' = box
    BY <1>4, <2>1, <2>3 DEF Finish
  <2>6. ASSUME ~met PROVE MemoryFits(new.pc = "register")' /\ Creating(new)' /\ Executing(new)'
    <3>1. MemoryFits(new.pc = "register")'
      BY <1>1, <1>2, <2>4, <2>5, <2>6 DEF MemoryFits, Alive, Remembered, Undied
    <3>2. QED
      BY <2>4, <3>1 DEF Creating, Executing
  <2>7. QED
    BY <1>1, <2>4, <2>5, <2>6, Requested, StepOn
<1>5. QED
  BY <1>3, <1>4

LEMMA MarkKeeps == ASSUME KernelInv, NEW r \in Requests, Mark(r) PROVE KernelInv'
<1>1. /\ At(r, "mark") /\ ~At(r, "idle") /\ Remembered /\ UNCHANGED <<box, lock, met, mishaps>>
      /\ redis' = [sess |-> mem.env, init |-> TRUE] /\ mem' = [mem EXCEPT !.init = TRUE]
  BY DEF Mark, At
<1>2. PICK at : at = To(r, "get")
  OBVIOUS
<1>3. at \in RequestRow /\ at.pc = "get"
  BY <1>2, Goes DEF Pcs
<1>4. PICK new : new = [at EXCEPT !.cell = "user"]
  OBVIOUS
<1>5. new \in RequestRow /\ new.pc = "get" /\ new.cell = "user" /\ new.pc # "running"
  BY <1>3, <1>4 DEF RequestRow
<1>6. Go(r, new, FALSE)
  BY <1>2, <1>4 DEF Mark
<1>7. /\ redis' \in KeysRow /\ redis'.sess = mem.env /\ mem' \in MemRow /\ mem'.env = mem.env
  BY <1>1, Requested DEF KeysRow, MemRow
<1>8. ASSUME ~met PROVE MemoryFits(new.pc = "register")' /\ Creating(new)' /\ Executing(new)'
  <2>1. MemoryFits(FALSE) /\ Executing(req[r])
    BY <1>1, <1>8, Alone DEF At, MemoryFits
  <2>2. mem.env = "own" /\ (Undied => Alive /\ box.init)
    BY <1>1, <2>1 DEF Executing, At
  <2>3. MemoryFits(new.pc = "register")'
    BY <1>1, <1>5, <1>7, <2>1, <2>2 DEF MemoryFits, Alive, Remembered, Undied
  <2>4. Executing(new)'
    BY <1>1, <1>5, <1>7, <2>2 DEF Executing, Alive, Undied
  <2>5. QED
    BY <1>5, <2>3, <2>4 DEF Creating
<1>9. QED
  BY <1>1, <1>5, <1>6, <1>7, <1>8, Requested, StepOn

\* A lock expires only when its holder runs nothing.
LEMMA LockExpiresKeeps == ASSUME KernelInv, LockExpires PROVE KernelInv'
<1>1. /\ UNCHANGED <<box, mem, redis, req, met, mishaps>> /\ lock' = "free"
      /\ lock = "dead" \/ (lock \in Requests /\ ~At(lock, "running"))
  BY DEF LockExpires
<1>2. KernelType'
  BY <1>1 DEF KernelInv, KernelType
<1>3. RunnersLocked'
  BY <1>1, KernelAssumption DEF KernelInv, RunnersLocked, At
<1>4. ASSUME Orderly PROVE Orderly'
  BY <1>1, <1>4 DEF Orderly, Sole, MemoryRight, MemoryFits, Creating, Executing, At, Alive, Remembered, Undied
<1>5. QED
  BY <1>1, <1>2, <1>3, <1>4 DEF KernelInv

\* No request is in progress.
LEMMA AtRest ==
  ASSUME KernelType', \A r \in Requests : At(r, "idle")', ~met' => MemoryFits(FALSE)'
  PROVE  KernelInv'
<1>1. RunnersLocked'
  BY DEF RunnersLocked, At
<1>2. ASSUME ~met' PROVE Orderly'
  <2>1. \A r \in Requests : req'[r].pc = "idle"
    BY DEF At
  <2>2. Sole'
    BY DEF Sole
  <2>3. MemoryRight'
    BY <1>2, <2>1 DEF MemoryRight, MemoryFits
  <2>4. \A r \in Requests : (Creating(req[r]) /\ Executing(req[r]))'
    BY <2>1 DEF Creating, Executing
  <2>5. QED
    BY <2>2, <2>3, <2>4 DEF Orderly
<1>3. QED
  BY <1>1, <1>2 DEF KernelInv

LEMMA CleanUpKeepsKernel == ASSUME KernelInv, CleanUp PROVE KernelInv'
<1>1. Destroyed /\ UNCHANGED <<lock, req, met, mishaps>> /\ \A r \in Requests : At(r, "idle")
  BY DEF CleanUp
<1>2. KernelType'
  BY <1>1, Gone DEF KernelInv, KernelType
<1>3. \A r \in Requests : At(r, "idle")'
  BY <1>1 DEF At
<1>4. QED
  BY <1>1, <1>2, <1>3, Gone, AtRest

LEMMA ApiDiesKeeps == ASSUME KernelInv, ApiDies PROVE KernelInv'
<1>1. /\ mem' = NoMem /\ req' = [r \in Requests |-> NoRequest] /\ UNCHANGED <<box, redis, met>>
      /\ lock' \in {"free", "dead"} /\ mishaps' \in MishapRow /\ mishaps'.deaths = mishaps.deaths
  BY Missed DEF ApiDies
<1>2. KernelType'
  BY <1>1, Empty DEF KernelInv, KernelType
<1>3. \A r \in Requests : At(r, "idle")'
  BY <1>1 DEF At, NoRequest
<1>4. mem'.env = "none" /\ mem'.init = FALSE
  BY <1>1 DEF NoMem
<1>5. ASSUME ~met PROVE MemoryFits(FALSE)'
  <2>1. Orderly
    BY <1>5 DEF KernelInv
  <2>2. Alive /\ redis.sess # "none" => box.env = redis.sess
    <3>1. CASE \E r \in Requests : At(r, "register")
      BY <2>1, <3>1 DEF Orderly, Creating, At
    <3>2. CASE ~\E r \in Requests : At(r, "register")
      BY <2>1, <3>2 DEF Orderly, MemoryRight, MemoryFits
    <3>3. QED
      BY <3>1, <3>2
  <2>3. Undied /\ redis.init => Alive /\ box.init /\ redis.sess # "none"
    BY <2>1 DEF Orderly, MemoryRight, MemoryFits
  <2>4. QED
    BY <1>1, <1>4, <2>2, <2>3 DEF MemoryFits, Alive, Remembered, Undied
<1>6. QED
  BY <1>1, <1>2, <1>3, <1>5, AtRest

LEMMA BoxDiesKeeps == ASSUME KernelInv, BoxDies PROVE KernelInv'
<1>1. /\ box' = [box EXCEPT !.st = "dead"] /\ UNCHANGED <<mem, redis, lock, met>> /\ Alive
      /\ req' = [r \in Requests |-> [req[r] EXCEPT !.in = FALSE]]
      /\ mishaps' \in MishapRow /\ mishaps'.deaths # 0
  BY Missed DEF BoxDies
<1>2. /\ req' \in [Requests -> RequestRow]
      /\ \A r \in Requests : /\ req'[r].pc = req[r].pc /\ req'[r].cell = req[r].cell
                             /\ req'[r].env = req[r].env /\ req'[r].back = req[r].back
                             /\ req'[r].in = FALSE
  <2>1. \A r \in Requests : /\ [req[r] EXCEPT !.in = FALSE] \in RequestRow
                            /\ [req[r] EXCEPT !.in = FALSE].pc = req[r].pc
                            /\ [req[r] EXCEPT !.in = FALSE].cell = req[r].cell
                            /\ [req[r] EXCEPT !.in = FALSE].env = req[r].env
                            /\ [req[r] EXCEPT !.in = FALSE].back = req[r].back
                            /\ [req[r] EXCEPT !.in = FALSE].in = FALSE
    BY Requested DEF RequestRow
  <2>2. QED
    BY <1>1, <2>1
<1>3. box' \in BoxRow /\ box'.st = "dead"
  BY <1>1 DEF KernelInv, KernelType, BoxRow
<1>4. KernelType'
  BY <1>1, <1>2, <1>3 DEF KernelInv, KernelType
<1>5. RunnersLocked'
  BY <1>1, <1>2 DEF KernelInv, RunnersLocked, At
<1>6. ASSUME ~met PROVE Orderly'
  <2>1. Orderly /\ ~Undied' /\ ~Alive'
    BY <1>1, <1>3, <1>6 DEF KernelInv, Undied, Alive
  <2>2. Sole'
    BY <1>2, <2>1 DEF Orderly, Sole, At
  <2>3. MemoryRight'
    BY <1>1, <2>1 DEF Orderly, MemoryRight, MemoryFits, Remembered
  <2>4. ASSUME NEW r \in Requests PROVE (Creating(req[r]) /\ Executing(req[r]))'
    <3>1. Creating(req[r]) /\ Executing(req[r])
      BY <2>1 DEF Orderly
    <3>2. req[r].pc # "run"
      BY <1>1, <3>1 DEF Creating, Alive
    <3>3. Creating(req[r])'
      BY <1>1, <1>2, <2>1, <3>1, <3>2 DEF Creating
    <3>4. Executing(req[r])'
      BY <1>1, <1>2, <2>1, <3>1 DEF Executing
    <3>5. QED
      BY <3>3, <3>4
  <2>5. QED
    BY <2>2, <2>3, <2>4 DEF Orderly
<1>7. QED
  BY <1>1, <1>4, <1>5, <1>6 DEF KernelInv

LEMMA KernelBegins == ASSUME KernelInit PROVE KernelInv
<1>1. /\ box = NoBox /\ mem = NoMem /\ redis = NoKeys /\ lock = "free" /\ met = FALSE
      /\ req = [r \in Requests |-> NoRequest]
      /\ mishaps = [timeouts |-> 0, restarts |-> 0, crashes |-> 0, deaths |-> 0]
  BY DEF KernelInit
<1>2. \A r \in Requests : req[r] = NoRequest /\ req[r].pc = "idle" /\ At(r, "idle")
  BY <1>1 DEF NoRequest, At
<1>3. KernelType
  BY <1>1, Empty DEF KernelType, MishapRow
<1>4. RunnersLocked
  BY <1>2 DEF RunnersLocked, At
<1>5. Orderly
  <2>1. Sole
    BY <1>2 DEF Sole
  <2>2. MemoryRight
    BY <1>1 DEF MemoryRight, MemoryFits, NoBox, NoMem, NoKeys, Alive, Remembered
  <2>3. \A r \in Requests : Creating(req[r]) /\ Executing(req[r])
    BY <1>2 DEF Creating, Executing
  <2> QED
    BY <2>1, <2>2, <2>3 DEF Orderly
<1> QED
  BY <1>3, <1>4, <1>5 DEF KernelInv

LEMMA KernelStep == ASSUME KernelInv, [KernelNext]_kernelVars PROVE KernelInv'
<1>1. CASE UNCHANGED kernelVars
  <2>1. UNCHANGED <<box, mem, redis, lock, req, met, mishaps>>
    BY <1>1 DEF kernelVars
  <2>2. KernelType' /\ RunnersLocked'
    BY <2>1 DEF KernelInv, KernelType, RunnersLocked, At
  <2>3. Orderly => Orderly'
    BY <2>1 DEF Orderly, Sole, MemoryRight, MemoryFits, Creating, Executing, At, Alive, Remembered, Undied
  <2> QED
    BY <2>1, <2>2, <2>3 DEF KernelInv
<1>2. ASSUME NEW r \in Requests, Handle(r) PROVE KernelInv'
  <2>1. CASE ExecuteCell(r) \/ Restart(r)
    BY <2>1, Begins
  <2>2. CASE Reuse(r)
    BY <2>2, ReuseKeeps
  <2>3. CASE Rebuild(r)
    BY <2>3, RebuildKeeps
  <2>4. CASE CreateNew(r)
    BY <2>4, CreateNewKeeps
  <2>5. CASE Remove(r)
    BY <2>5, RemoveKeeps
  <2>6. CASE Run(r)
    BY <2>6, RunKeeps
  <2>7. CASE Register(r)
    BY <2>7, RegisterKeeps
  <2>8. CASE CreateFails(r)
    BY <2>8, CreateFailsKeeps
  <2>9. CASE CheckInit(r)
    BY <2>9, CheckInitKeeps
  <2>10. CASE Execute(r)
    BY <2>10, ExecuteKeeps
  <2>11. CASE Refuse(r) \/ RunnerFails(r) \/ Rebuilt(r) \/ MarkFails(r)
    BY <2>11, FailuresKeep
  <2>12. CASE Finish(r)
    BY <2>12, FinishKeeps
  <2>13. CASE TimeOut(r) \/ RestartDestroys(r)
    BY <2>13, TimeOutKeeps
  <2>14. CASE Mark(r)
    BY <2>14, MarkKeeps
  <2> QED
    BY <1>2, <2>1, <2>2, <2>3, <2>4, <2>5, <2>6, <2>7, <2>8, <2>9, <2>10, <2>11, <2>12, <2>13, <2>14
       DEF Handle
<1> QED
  BY <1>1, <1>2, LockExpiresKeeps, CleanUpKeepsKernel, ApiDiesKeeps, BoxDiesKeeps DEF KernelNext

\* execute_cell, restart_kernel, the idle cleanup, a timeout's rebuild, a
\* container that dies and an API process that restarts keep the kernel's
\* records in step: whoever runs code has the lock, and as long as no two
\* requests met, memory and Redis know the environment of the container that
\* runs, and believe the hidden cells done only if they ran in it.
THEOREM KernelInvariant == KernelSpec => []KernelInv
<1>1. KernelInit => KernelInv
  BY KernelBegins
<1>2. KernelInv /\ [KernelNext]_kernelVars => KernelInv'
  BY KernelStep
<1> QED
  BY <1>1, <1>2, PTL DEF KernelSpec

LEMMA KernelInvReady == ASSUME KernelInv PROVE KernelReady
<1>1. OneRunner
  BY DEF KernelInv, RunnersLocked, OneRunner
<1>2. ASSUME NEW r \in Requests, At(r, "running"), req[r].in, ~met
      PROVE  Alive /\ box.env = "own" /\ (req[r].cell = "user" /\ Undied => box.init)
  <2>1. ~At(r, "idle") /\ ~At(r, "register") /\ req[r].pc = "running"
    BY <1>2 DEF At
  <2>2. MemoryFits(FALSE) /\ Executing(req[r])
    BY <1>2, <2>1, Alone DEF At, MemoryFits
  <2>3. Alive /\ mem.env = "own" /\ (req[r].cell = "user" /\ Undied => box.init)
    BY <1>2, <2>1, <2>2 DEF Executing
  <2> QED
    BY <2>2, <2>3 DEF MemoryFits, Remembered
<1>3. OwnEnvironment
  BY <1>2 DEF OwnEnvironment
<1>4. HiddenFirst
  BY <1>2 DEF HiddenFirst, Undied
<1> QED
  BY <1>1, <1>3, <1>4 DEF KernelReady

\* Only one piece of code runs in a kernel at a time, although the lock may
\* expire during a rebuild; and where requests never overlapped it runs in the
\* record's own environment and, unless the container died by itself, a
\* student's code runs after the hidden cells (KernelManager.execute,
\* _init_hidden_cells_once).
THEOREM KernelsAreReady == KernelSpec => []KernelReady
<1>1. KernelInv => KernelReady
  BY KernelInvReady
<1> QED
  BY <1>1, KernelInvariant, PTL
=============================================================================
