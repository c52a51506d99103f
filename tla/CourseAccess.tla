---------------------------- MODULE CourseAccess ----------------------------
(***************************************************************************)
(* Who belongs to a course and who may see its tasks: the rosters of the   *)
(* teaching classes (api/academics.py), their materialisation as course    *)
(* enrolments (roster_service.py), the teacher's and the students' own     *)
(* enrolments (api/courses.py), visibility (can_view_course against the    *)
(* SQL predicate of the list) and the audience of a task                   *)
(* (audience_service.py, the computed set against the SQL condition).      *)
(*                                                                         *)
(* One course with one task.  A request that changes the roster reads its  *)
(* snapshot in one step and commits in another; MySQL lets a transaction   *)
(* overwrite rows that changed since, column by column: the ORM writes     *)
(* only the columns it set to another value.  Terms and the archiving of   *)
(* classes, which change no rule here, and the teachers are left out.      *)
(***************************************************************************)
EXTENDS Naturals, FiniteSets

CONSTANTS Pupils, Classes, Offices,   \* Offices: requests served at a time
          MaxRoster, MaxSettings      \* bounds

ASSUME CourseAssumption == {MaxRoster, MaxSettings} \subseteq Nat

VARIABLES course,     \* Course: status, visibility
          member,     \* TeachingClassStudent: status by class and student
          links,      \* CourseTeachingClass
          enrolment,  \* CourseEnrollment: status and origin by student
          white,      \* CourseWhitelistStudent
          task,       \* Exam or Assignment: status and audience
          office,     \* what the requests under way will write
          word,       \* the last decision on a student taken for him alone
          crossed         \* have two requests on the roster ever overlapped?

VARIABLE asked         \* how much of each bound has been used

courseVars == <<course, member, links, enrolment, white, task, office, word, crossed, asked>>

None == [status |-> "none", origin |-> "none"]
Vacant == [what |-> "none"]

CourseInit ==
  /\ course \in [status : {"published"}, visibility : {"class", "whitelist", "private", "public"}]
  /\ member = [p \in Classes \X Pupils |-> "none"]
  /\ links = {} /\ white = {}
  /\ enrolment = [s \in Pupils |-> None]
  /\ task = [status |-> "draft", mode |-> "all_enrolled", classes |-> {},
             include |-> {}, exclude |-> {}]
  /\ office = [o \in Offices |-> Vacant]
  /\ word = [s \in Pupils |-> "none"]
  /\ crossed = FALSE /\ asked = [roster |-> 0, settings |-> 0]

Within(what, max) == asked[what] < max /\ asked' = [asked EXCEPT ![what] = @ + 1]

-----------------------------------------------------------------------------
(* Who is what.                                                            *)

InClass(m, l, s) == \E k \in l : m[<<k, s>>] = "active"
Enrolled(s) == enrolment[s].status = "enrolled"

(* can_view_course, and can_access_course_content.                         *)
CanView(s) ==
  /\ course.status = "published"
  /\ \/ course.visibility = "public"
     \/ /\ course.visibility = "class"
        /\ \/ InClass(member, links, s)
           \/ Enrolled(s) /\ enrolment[s].origin = "manual"
     \/ course.visibility = "whitelist" /\ s \in white
     \/ course.visibility = "private" /\ Enrolled(s)
CanAccess(s) == CanView(s) /\ Enrolled(s)

(* student_visible_course_predicate, of the list, the search, the          *)
(* dashboard.                                                              *)
(* Mutant: a list for which all enrolments are alike.                      *)
ListedAlike(s) ==
  LET rows == {r \in {enrolment[s]} : r.status = "enrolled"}
      classes == {k \in Classes : member[<<k, s>>] = "active"} IN
  course.status = "published" /\ CASE course.visibility = "public" -> TRUE
    [] course.visibility = "class" -> classes \cap links # {} \/ rows # {}
    [] course.visibility = "whitelist" -> s \in white
    [] course.visibility = "private" -> rows # {}

Listed(s) ==
  LET rows == {r \in {enrolment[s]} : r.status = "enrolled"}
      classes == {k \in Classes : member[<<k, s>>] = "active"} IN
  course.status = "published" /\ CASE course.visibility = "public" -> TRUE
    [] course.visibility = "class" -> \/ classes \cap links # {}
                                      \/ \E r \in rows : r.origin = "manual"
    [] course.visibility = "whitelist" -> s \in white
    [] course.visibility = "private" -> rows # {}

(* effective_student_ids: what a task checks when it is opened.            *)
Audience ==
  LET base == CASE task.mode = "all_enrolled" -> {s \in Pupils : Enrolled(s)}
                [] task.mode = "selected_classes" ->
                     {s \in Pupils : InClass(member, task.classes, s)}
                [] task.mode = "whitelist_only" -> {} IN
  (base \ task.exclude) \cup task.include

(* assignment_visible_condition, exam_visible_condition: what the lists    *)
(* show.                                                                   *)
TaskListed(s) ==
  LET include == s \in task.include
      exclude == s \in task.exclude
      base == task.status = "published" /\
              \/ task.mode = "all_enrolled" /\ Enrolled(s)
              \/ task.mode = "selected_classes" /\ InClass(member, task.classes, s) IN
  /\ task.status = "published" /\ course.status = "published"
  /\ (base \/ include) /\ (~exclude \/ include)

(* _student_exam_allowed and what follows it in start, session and submit. *)
CanStart(s) ==
  /\ s \in Audience \/ CanAccess(s)
  /\ task.status = "published" /\ s \in Audience

-----------------------------------------------------------------------------
(* What a request will write: membership rows, links to drop and to add,   *)
(* and enrolments as [insert, status, origin] with "keep" for a column     *)
(* that is not set to another value.                                       *)

Keep == [insert |-> FALSE, status |-> "keep", origin |-> "keep"]
Same == [what |-> "roster", joins |-> {}, leaves |-> {}, drop |-> {}, add |-> {},
         rows |-> [s \in Pupils |-> Keep], says |-> "none"]
Column(new, old) == IF new = old THEN "keep" ELSE new
Becoming(s, status, origin) ==
  [insert |-> enrolment[s] = None, status |-> Column(status, enrolment[s].status),
   origin |-> Column(origin, enrolment[s].origin)]

(* sync_course_class_enrollments, with the membership m and the links l.   *)
(* Mutant: it takes every enrolment for its own.                           *)
SyncedAll(m, l) == [s \in Pupils |->
  IF InClass(m, l, s) THEN Becoming(s, "enrolled", "class")
  ELSE IF enrolment[s] # None THEN Becoming(s, "dropped", enrolment[s].origin)
  ELSE Keep]

Synced(m, l) == [s \in Pupils |->
  IF InClass(m, l, s) /\ enrolment[s].origin \in {"none", "class"}
    THEN Becoming(s, "enrolled", "class")
  ELSE IF ~InClass(m, l, s) /\ enrolment[s].origin = "class"
    THEN Becoming(s, "dropped", "class")
  ELSE Keep]

Begin(o, plan) ==
  /\ office[o] = Vacant /\ Within("roster", MaxRoster)
  /\ office' = [office EXCEPT ![o] = plan]
  /\ crossed' = (crossed \/ \E other \in Offices : office[other] # Vacant)
  /\ UNCHANGED <<course, member, links, enrolment, white, task, word>>

(* add_class_students, remove_class_student: sync_courses_for_class only   *)
(* if the course is linked.                                                *)
Join(o, k, s) ==
  LET m == [member EXCEPT ![<<k, s>>] = "active"] IN
  Begin(o, [Same EXCEPT !.joins = {<<k, s>>},
                        !.rows = IF k \in links THEN Synced(m, links) ELSE Same.rows])
Leave(o, k, s) ==
  LET m == [member EXCEPT ![<<k, s>>] = "removed"] IN
  /\ member[<<k, s>>] # "none"
  /\ Begin(o, [Same EXCEPT !.leaves = {<<k, s>>},
                           !.rows = IF k \in links THEN Synced(m, links) ELSE Same.rows])

(* _set_course_classes.                                                    *)
SetClasses(o, ks) ==
  Begin(o, [Same EXCEPT !.drop = links, !.add = ks, !.rows = Synced(member, ks)])

One(o, s, row, says) == Begin(o, [Same EXCEPT !.rows[s] = row, !.says = says])

(* add_course_student, remove_course_student, import_course_students: the  *)
(* import does not make an enrolment the teacher's that there is already.  *)
AddStudent(o, s) == One(o, s, Becoming(s, "enrolled", "manual"), "in")
RemoveStudent(o, s) ==
  enrolment[s] # None /\ One(o, s, Becoming(s, "dropped", "manual"), "out")
ImportStudent(o, s) ==
  ~Enrolled(s) /\ One(o, s, Becoming(s, "enrolled", "manual"), "in")

(* enroll_course, drop_course.                                             *)
EnrollCourse(o, s) ==
  /\ course.status = "published"
  /\ \/ course.visibility = "public"
     \/ course.visibility = "class" /\ InClass(member, links, s)
     \/ course.visibility = "whitelist" /\ s \in white
     \/ /\ course.visibility = "private"
        /\ enrolment[s] \notin {None, [status |-> "dropped", origin |-> "manual"]}
  /\ One(o, s, Becoming(s, "enrolled", "self"), "in")
DropCourse(o, s) ==
  /\ enrolment[s] # None /\ enrolment[s].origin # "class"
  /\ One(o, s, Becoming(s, "dropped", enrolment[s].origin), "out")

(* The commit.  A row that another request has inserted meanwhile (or that *)
(* it has linked) is an integrity error, and all is rolled back.           *)
Clash(p) == \/ \E s \in Pupils : p.rows[s].insert /\ enrolment[s] # None
            \/ p.add \cap (links \ p.drop) # {}
Written(s, w) == [status |-> IF w.status = "keep" THEN enrolment[s].status ELSE w.status,
                  origin |-> IF w.origin = "keep" THEN enrolment[s].origin ELSE w.origin]
Commit(o) ==
  LET p == office[o] IN
  /\ p # Vacant /\ ~Clash(p)
  /\ member' = [x \in Classes \X Pupils |-> IF x \in p.joins THEN "active"
                  ELSE IF x \in p.leaves THEN "removed" ELSE member[x]]
  /\ links' = (links \ p.drop) \cup p.add
  /\ enrolment' = [s \in Pupils |-> Written(s, p.rows[s])]
  /\ word' = [s \in Pupils |-> IF p.says # "none" /\ p.rows[s] # Keep THEN p.says ELSE word[s]]
  /\ office' = [office EXCEPT ![o] = Vacant]
  /\ UNCHANGED <<course, white, task, crossed, asked>>
RollBack(o) ==
  /\ office[o] # Vacant /\ Clash(office[o])
  /\ office' = [office EXCEPT ![o] = Vacant]
  /\ UNCHANGED <<course, member, links, enrolment, white, task, word, crossed, asked>>

-----------------------------------------------------------------------------
(* What does not touch the roster: update_course and archive_course, the   *)
(* whitelist, save_audience and import_audience_students.                  *)

Setting == Within("settings", MaxSettings)
           /\ UNCHANGED <<member, links, enrolment, office, word, crossed>>

UpdateCourse ==
  /\ \E v \in {"class", "whitelist", "private", "public"}, st \in {"draft", "published", "archived"} :
       course' = [status |-> st, visibility |-> v] /\ course' # course
  /\ Setting /\ UNCHANGED <<white, task>>

Whitelist ==
  /\ \E s \in Pupils : white' = IF s \in white THEN white \ {s} ELSE white \cup {s}
  /\ Setting /\ UNCHANGED <<course, task>>

(* validate_audience: no student on both lists, only linked classes; and   *)
(* require_effective_audience: not published to nobody.                    *)
SaveAudience ==
  /\ \E mode \in {"all_enrolled", "selected_classes", "whitelist_only"}, ks \in SUBSET links,
        inc \in SUBSET Pupils : \E exc \in SUBSET (Pupils \ inc) :
       task' = [status |-> "published", mode |-> mode, classes |-> ks,
                include |-> inc, exclude |-> exc]
  /\ task'.mode = "selected_classes" => task'.classes # {}
  /\ Setting /\ UNCHANGED <<course, white>>
  /\ Audience' # {}

(* The import asks neither: a student may come to stand on both lists.     *)
ImportAudience ==
  /\ \E s \in Pupils : \/ task' = [task EXCEPT !.include = @ \cup {s}]
                       \/ task' = [task EXCEPT !.exclude = @ \cup {s}]
  /\ task' # task
  /\ Setting /\ UNCHANGED <<course, white>>

OfTheClass(o) == \E k \in Classes, s \in Pupils : Join(o, k, s) \/ Leave(o, k, s)
OfTheStudent(o) == \E s \in Pupils :
  AddStudent(o, s) \/ RemoveStudent(o, s) \/ ImportStudent(o, s) \/ EnrollCourse(o, s) \/ DropCourse(o, s)

CourseNext ==
  \/ \E o \in Offices : \/ OfTheClass(o) \/ OfTheStudent(o) \/ Commit(o) \/ RollBack(o)
                        \/ \E ks \in SUBSET Classes : SetClasses(o, ks)
  \/ UpdateCourse \/ Whitelist \/ SaveAudience \/ ImportAudience

-----------------------------------------------------------------------------
(* As long as no two requests on the roster have overlapped, after any     *)
(* sequence of them: an enrolment that the classes brought lasts exactly   *)
(* as long as a linked class has the student, every member of a linked     *)
(* class has an enrolment, and no synchronisation overrides what a teacher *)
(* or the student decided.                                                 *)
RosterKept == ~crossed => \A s \in Pupils :
  LET e == enrolment[s] IN
  /\ e.origin = "class" => (e.status = "enrolled" <=> InClass(member, links, s))
  /\ InClass(member, links, s) => e # None
  /\ word[s] = "in" /\ e.origin # "class" => e.status = "enrolled"
  /\ word[s] = "out" => e.status = "dropped"
  /\ word[s] = "none" => e.origin \in {"none", "class"}

(* What is shown can be opened, and what can be opened is shown: the list  *)
(* and the check of a course agree, and so do the list and the start of a  *)
(* task while the course is published, in every mode and with a student on *)
(* both lists, even though each pair is written twice.                     *)
ListedIsOpen == \A s \in Pupils :
  /\ Listed(s) <=> CanView(s)
  /\ TaskListed(s) <=> CanStart(s) /\ course.status = "published"

(* Whom the roster has, and what each of them may see and open.            *)
RosterSound == RosterKept /\ ListedIsOpen
=============================================================================
