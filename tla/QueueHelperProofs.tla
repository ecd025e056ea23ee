-------------------------- MODULE QueueHelperProofs --------------------------
(***************************************************************************)
(* Proofs about QueueHelper for any requests, statuses and queue classes.  *)
(***************************************************************************)
EXTENDS QueueHelper, FiniteSetTheorems, TLAPS

\* What a request is filed under belongs to the requests the loop has left.
FreshInv == \A e \in entries : e[3] \notin todo

\* queueSize counts the entries, of which there are finitely many.
CountInv == IsFiniteSet(entries) /\ QueueSizeCounts

\* A request being read has not succeeded, unless the node finished it since.
ReadingInv ==
    reading # None => reading \in moved \/ status[reading].state # "succeeded"

\* The requests the loop has left are filed under their documented class.
DocumentedInv ==
    isDesired(DL_F) =>
        \A r \in Requests \ moved :
            (r \notin todo /\ DocumentedClass(status[r]) # DL_C_DISK) =>
                Filed(r) = IF isDesired(DocumentedClass(status[r]))
                           THEN {DocumentedClass(status[r])} ELSE {}

IInv == TypeOK /\ FreshInv /\ CountInv /\ FiledOnce /\ ReadingInv /\ DocumentedInv

-----------------------------------------------------------------------------
(* Queue classes.                                                          *)

\* Every flag names a class, and every class contains its family's meta flag.
LEMMA ClassFamilies ==
    /\ \A c \in DOWNLOAD_CLASSES : c \in Classes /\ DL \subseteq c
    /\ \A c \in UPLOAD_CLASSES : c \in Classes /\ UP \subseteq c
BY DEF Classes, DOWNLOAD_CLASSES, UPLOAD_CLASSES, DL_C_DISK, DL_C_TEMP, DL_F,
       DL_UC, DL_F_U_MIME, DL_F_B_MIME, UP_C, UP_C_DIR, UP_F, UP_F_DIR, UP_UC,
       UP_UC_DIR

\* A failed download gets one of three classes, the documented one.
LEMMA FailedClassDocumented ==
    ASSUME NEW s \in Status
    PROVE  /\ FailedClass(s) \in {DL_F_U_MIME, DL_F_B_MIME, DL_F}
           /\ s.kind = "download" /\ s.state = "failed" =>
                  DocumentedClass(s) = FailedClass(s)
<1>1. FailedClass(s) \in {DL_F_U_MIME, DL_F_B_MIME, DL_F}
    BY DEF FailedClass
<1>2. ASSUME s.kind = "download", s.state = "failed"
      PROVE  DocumentedClass(s) = FailedClass(s)
    <2>1. DocumentedClass(s) = IF s.code = "other" THEN DL_F
            ELSE IF s.code = "bad_mime" /\ s.mime \in Handled THEN DL_F_B_MIME
            ELSE DL_F_U_MIME
        BY <1>2 DEF DocumentedClass
    <2>. QED BY <2>1 DEF FailedClass, Status
<1>. QED BY <1>1, <1>2

\* The documented class belongs to the family of the request.
LEMMA DocumentedFamily ==
    ASSUME NEW s \in Status
    PROVE  /\ s.kind = "download" => DocumentedClass(s) \in DOWNLOAD_CLASSES
           /\ s.kind # "download" => DocumentedClass(s) \in UPLOAD_CLASSES
<1>1. ASSUME s.kind = "download" PROVE DocumentedClass(s) \in DOWNLOAD_CLASSES
    <2>1. CASE s.state = "running"
        BY <1>1, <2>1 DEF DocumentedClass, DOWNLOAD_CLASSES
    <2>2. CASE s.state = "failed"
        BY <1>1, <2>2 DEF DocumentedClass, DOWNLOAD_CLASSES
    <2>3. CASE s.state = "succeeded"
        BY <1>1, <2>3 DEF DocumentedClass, DOWNLOAD_CLASSES
    <2>. QED BY <2>1, <2>2, <2>3 DEF Status
<1>2. ASSUME s.kind = "upload" PROVE DocumentedClass(s) \in UPLOAD_CLASSES
    BY <1>2 DEF DocumentedClass, UPLOAD_CLASSES, Status
<1>3. ASSUME s.kind = "dir" PROVE DocumentedClass(s) \in UPLOAD_CLASSES
    BY <1>3 DEF DocumentedClass, UPLOAD_CLASSES, Status
<1>. QED BY <1>1, <1>2, <1>3 DEF Status

\* What is not desired as a family is not desired as a class.
LEMMA FamilyNotDesired ==
    ASSUME NEW s \in Status,
           ~isDesired(IF s.kind = "download" THEN DL ELSE UP)
    PROVE  ~isDesired(DocumentedClass(s))
<1>1. ASSUME NEW c, isDesired(c), DL \subseteq c PROVE isDesired(DL)
    BY <1>1 DEF isDesired, matches
<1>2. ASSUME NEW c, isDesired(c), UP \subseteq c PROVE isDesired(UP)
    BY <1>2 DEF isDesired, matches
<1>. QED BY <1>1, <1>2, ClassFamilies, DocumentedFamily

-----------------------------------------------------------------------------
(* Filing a request.                                                       *)

\* What filing does to the types and the count.
LEMMA FileCounts ==
    ASSUME TypeOK, CountInv, FreshInv, FiledOnce,
           NEW r \in todo, NEW mime \in Mimes \cup {None}, NEW class \in Classes,
           File(r, mime, class)
    PROVE  /\ entries' \subseteq Classes \X (Mimes \cup {None}) \X Requests
           /\ queueSize' \in Nat
           /\ CountInv'
           /\ FiledOnce'
           /\ \A e \in entries' : e \in entries \/ e[3] = r
<1>1. CASE ~isDesired(class)
    BY <1>1 DEF File, TypeOK, CountInv, QueueSizeCounts, FiledOnce
<1>2. CASE isDesired(class)
    <2> DEFINE new == <<class, mime, r>>
    <2>1. entries' = entries \cup {new} /\ queueSize' = queueSize + 1
        BY <1>2 DEF File
    <2>2. new \in Classes \X (Mimes \cup {None}) \X Requests /\ new[3] = r
        BY DEF TypeOK
    <2>3. new \notin entries
        BY <2>2 DEF FreshInv
    <2>4. IsFiniteSet(entries') /\ Cardinality(entries') = Cardinality(entries) + 1
        BY <2>1, <2>3, FS_AddElement DEF CountInv
    <2>5. CountInv'
        BY <2>1, <2>4 DEF CountInv, QueueSizeCounts
    <2>6. FiledOnce'
        BY <2>1, <2>2 DEF FiledOnce, FreshInv
    <2>. QED BY <2>1, <2>2, <2>5, <2>6 DEF TypeOK
<1>. QED BY <1>1, <1>2

\* Filing r puts it under the class if that is desired, and moves no other.
LEMMA FileFiles ==
    ASSUME FreshInv, NEW r \in todo, NEW mime, NEW class, File(r, mime, class)
    PROVE  /\ Filed(r)' = IF isDesired(class) THEN {class} ELSE {}
           /\ \A q \in Requests : q # r => Filed(q)' = Filed(q)
<1>1. CASE ~isDesired(class)
    BY <1>1 DEF File, FreshInv, Filed
<1>2. CASE isDesired(class)
    <2>1. entries' = entries \cup {<<class, mime, r>>}
        BY <1>2 DEF File
    <2>2. Filed(r)' = {class}
        <3>1. {f \in entries' : f[3] = r} = {<<class, mime, r>>}
            BY <2>1 DEF FreshInv
        <3>2. Filed(r)' = {e[1] : e \in {<<class, mime, r>>}}
            BY <3>1 DEF Filed
        <3>. QED BY <3>2
    <2>3. ASSUME NEW q \in Requests, q # r PROVE Filed(q)' = Filed(q)
        BY <2>1, <2>3 DEF Filed
    <2>. QED BY <1>2, <2>2, <2>3
<1>. QED BY <1>1, <1>2

-----------------------------------------------------------------------------
(* The invariant is inductive.                                             *)

\* The constructor begins in the invariant.
LEMMA InitInv == Init => IInv
<1>1. SUFFICES ASSUME Init PROVE IInv
    OBVIOUS
<1>2. TypeOK
    BY <1>1, StatusAssumption, NumberAssumption DEF Init, TypeOK
<1>3. CountInv
    BY <1>1, FS_EmptySet DEF Init, CountInv, QueueSizeCounts
<1>4. FreshInv /\ FiledOnce /\ ReadingInv /\ DocumentedInv
    BY <1>1 DEF Init, FreshInv, FiledOnce, ReadingInv, DocumentedInv
<1>. QED BY <1>2, <1>3, <1>4 DEF IInv

\* A step that files r under the class keeps everything but the documented class.
LEMMA FileKeeps ==
    ASSUME IInv, NEW r \in todo, NEW mime \in Mimes \cup {None},
           NEW class \in Classes, File(r, mime, class), Leave(r),
           lowestQueuedPriority' \in 0 .. MinimumPriority,
           totalQueueDownloadSize' \in Nat, totalQueueUploadSize' \in Nat
    PROVE  TypeOK' /\ FreshInv' /\ CountInv' /\ FiledOnce' /\ ReadingInv'
<1>1. /\ entries' \subseteq Classes \X (Mimes \cup {None}) \X Requests
      /\ queueSize' \in Nat
      /\ CountInv'
      /\ FiledOnce'
      /\ \A e \in entries' : e \in entries \/ e[3] = r
    BY FileCounts DEF IInv
<1>2. TypeOK'
    BY <1>1 DEF IInv, TypeOK, Leave
<1>3. FreshInv'
    BY <1>1 DEF IInv, FreshInv, Leave
<1>4. ReadingInv'
    BY DEF ReadingInv, Leave
<1>. QED BY <1>1, <1>2, <1>3, <1>4

\* If the class is the documented one, wherever that matters, the rest holds too.
LEMMA FileDocumented ==
    ASSUME IInv, NEW r \in todo, NEW mime, NEW class,
           File(r, mime, class), Leave(r),
           (isDesired(DL_F) /\ r \notin moved
                /\ DocumentedClass(status[r]) # DL_C_DISK)
               => class = DocumentedClass(status[r])
    PROVE  DocumentedInv'
<1>1. /\ Filed(r)' = IF isDesired(class) THEN {class} ELSE {}
      /\ \A q \in Requests : q # r => Filed(q)' = Filed(q)
    BY FileFiles DEF IInv
<1>2. /\ requestedClass' = requestedClass /\ status' = status /\ moved' = moved
      /\ todo' = todo \ {r}
    BY DEF Leave
<1>3. SUFFICES ASSUME isDesired(DL_F), NEW q \in Requests \ moved, q \notin todo',
                      DocumentedClass(status[q]) # DL_C_DISK
               PROVE  Filed(q)' = IF isDesired(DocumentedClass(status[q]))
                                  THEN {DocumentedClass(status[q])} ELSE {}
    BY <1>2 DEF DocumentedInv, isDesired, DocumentedClass
<1>4. CASE q = r
    BY <1>1, <1>3, <1>4
<1>5. CASE q # r
    BY <1>1, <1>2, <1>3, <1>5 DEF IInv, DocumentedInv
<1>. QED BY <1>4, <1>5
\* What a successful or a running request of each kind is documented as.
LEMMA DocumentedCases ==
    ASSUME NEW s \in Status
    PROVE  /\ s.kind = "download" /\ s.state = "running" =>
                DocumentedClass(s) = DL_UC
           /\ s.kind = "download" /\ s.state = "succeeded" =>
                DocumentedClass(s) \in {DL_C_TEMP, DL_C_DISK}
           /\ s.kind # "download" /\ s.state = "running" =>
                DocumentedClass(s) = IF s.kind = "dir" THEN UP_UC_DIR ELSE UP_UC
           /\ s.kind # "download" /\ s.state = "failed" =>
                DocumentedClass(s) = IF s.kind = "dir" THEN UP_F_DIR ELSE UP_F
           /\ s.kind # "download" /\ s.state = "succeeded" =>
                DocumentedClass(s) = IF s.kind = "dir" THEN UP_C_DIR ELSE UP_C
<1>1. CASE s.kind = "download"
    BY <1>1 DEF DocumentedClass
<1>2. CASE s.kind = "upload"
    BY <1>2 DEF DocumentedClass
<1>3. CASE s.kind = "dir"
    BY <1>3 DEF DocumentedClass
<1>. QED BY <1>1, <1>2, <1>3 DEF Status

\* A size that is added is never negative.
LEMMA KnownSizeType ==
    ASSUME NEW s \in Status
    PROVE  KnownSize(s) \in Nat
BY DEF KnownSize, Status

\* The lowest priority stays in its range.
LEMMA LowerPriorityType ==
    ASSUME TypeOK, NEW s \in Status, LowerPriority(s)
    PROVE  lowestQueuedPriority' \in 0 .. MinimumPriority
BY DEF LowerPriority, TypeOK, Status

\* The invariant holds after every step: one step of the proof per action.
LEMMA NextInv == IInv /\ [Next]_vars => IInv'
<1> SUFFICES ASSUME IInv, [Next]_vars PROVE IInv'
    OBVIOUS
<1> USE DEF IInv
<1>0. \A r \in Requests : status[r] \in Status
    BY DEF TypeOK
<1>1. ASSUME NEW r \in Requests, NotSucceeded(r) PROVE IInv'
    <2>1. TypeOK'
        BY <1>1 DEF NotSucceeded, TypeOK
    <2>2. FreshInv' /\ CountInv' /\ FiledOnce'
        BY <1>1 DEF NotSucceeded, FreshInv, CountInv, QueueSizeCounts, FiledOnce
    <2>3. ReadingInv'
        BY <1>1 DEF NotSucceeded, ReadingInv
    <2>4. DocumentedInv'
        BY <1>1 DEF NotSucceeded, DocumentedInv, Filed, isDesired, DocumentedClass
    <2>. QED BY <2>1, <2>2, <2>3, <2>4
<1>2. ASSUME NEW r \in Requests, Skip(r) PROVE IInv'
    <2>1. TypeOK' /\ FreshInv' /\ CountInv' /\ FiledOnce' /\ ReadingInv'
        BY <1>2 DEF Skip, Leave, TypeOK, FreshInv, CountInv, QueueSizeCounts,
                    FiledOnce, ReadingInv
    <2>2. ~isDesired(DocumentedClass(status[r]))
        BY <1>0, <1>2, FamilyNotDesired DEF Skip, DesiredDownload, DesiredUpload, Status
    <2>3. Filed(r) = {}
        BY <1>2 DEF Skip, FreshInv, Filed
    <2>4. DocumentedInv'
        <3>1. /\ \A q \in Requests : Filed(q)' = Filed(q)
              /\ requestedClass' = requestedClass /\ status' = status
              /\ moved' = moved /\ todo' = todo \ {r}
            BY <1>2 DEF Skip, Leave, Filed
        <3>2. SUFFICES
                ASSUME isDesired(DL_F), NEW q \in Requests \ moved, q \notin todo',
                       DocumentedClass(status[q]) # DL_C_DISK
                PROVE  Filed(q)' = IF isDesired(DocumentedClass(status[q]))
                                   THEN {DocumentedClass(status[q])} ELSE {}
            BY <3>1 DEF DocumentedInv, isDesired, DocumentedClass
        <3>3. CASE q = r
            BY <2>2, <2>3, <3>1, <3>3
        <3>4. CASE q # r
            BY <3>1, <3>2, <3>4 DEF DocumentedInv
        <3>. QED BY <3>3, <3>4
    <2>. QED BY <2>1, <2>4
<1>3. ASSUME NEW r \in Requests, DownloadSucceeded(r) PROVE IInv'
    <2>1. /\ r \in todo /\ File(r, None, DL_C_TEMP) /\ Leave(r)
          /\ DL_C_TEMP \in Classes
        BY <1>3, ClassFamilies DEF DownloadSucceeded, DOWNLOAD_CLASSES
    <2>2. TypeOK' /\ FreshInv' /\ CountInv' /\ FiledOnce' /\ ReadingInv'
        BY <1>3, <2>1, FileKeeps DEF DownloadSucceeded, TypeOK
    <2>3. DocumentedClass(status[r]) \in {DL_C_TEMP, DL_C_DISK}
        BY <1>0, <1>3, DocumentedCases DEF DownloadSucceeded, DesiredDownload
    <2>4. DocumentedInv'
        BY <2>1, <2>3, FileDocumented
    <2>. QED BY <2>2, <2>4
<1>4. ASSUME NEW r \in Requests, DownloadFailed(r) PROVE IInv'
    <2> DEFINE class == FailedClass(status[r])
               mime == IF class = DL_F THEN None ELSE status[r].mime
    <2>1. /\ r \in todo /\ File(r, mime, class) /\ Leave(r)
          /\ class \in Classes /\ mime \in Mimes \cup {None}
        <3>1. r \in todo
            BY <1>4, NoneAssumption DEF DownloadFailed, TypeOK
        <3>2. class \in Classes
            BY <1>0, FailedClassDocumented, ClassFamilies DEF DOWNLOAD_CLASSES
        <3>3. mime \in Mimes \cup {None}
            BY <1>0 DEF Status
        <3>. QED BY <1>4, <3>1, <3>2, <3>3 DEF DownloadFailed
    <2> HIDE DEF class, mime
    <2>2. TypeOK' /\ FreshInv' /\ CountInv' /\ FiledOnce' /\ ReadingInv'
        BY <1>4, <2>1, FileKeeps DEF DownloadFailed, TypeOK
    <2>3. r \notin moved => status[r].state = "failed" /\ status[r].kind = "download"
        BY <1>0, <1>4, NoneAssumption
           DEF DownloadFailed, DesiredDownload, hasFinished, ReadingInv, Status
    <2>4. r \notin moved => class = DocumentedClass(status[r])
        BY <1>0, <2>3, FailedClassDocumented DEF class
    <2>5. DocumentedInv'
        BY <2>1, <2>4, FileDocumented
    <2>. QED BY <2>2, <2>5
<1>5. ASSUME NEW r \in Requests, DownloadRunning(r) PROVE IInv'
    <2>1. /\ r \in todo /\ File(r, None, DL_UC) /\ Leave(r) /\ DL_UC \in Classes
        BY <1>5, NoneAssumption, ClassFamilies
           DEF DownloadRunning, DOWNLOAD_CLASSES, TypeOK
    <2>2. TypeOK' /\ FreshInv' /\ CountInv' /\ FiledOnce' /\ ReadingInv'
        <3>1. lowestQueuedPriority' \in 0 .. MinimumPriority
            BY <1>0, <1>5, LowerPriorityType DEF DownloadRunning
        <3>2. totalQueueDownloadSize' \in Nat /\ totalQueueUploadSize' \in Nat
            BY <1>0, <1>5, KnownSizeType DEF DownloadRunning, TypeOK
        <3>. QED BY <2>1, <3>1, <3>2, FileKeeps
    <2>3. isDesired(DL_F) => DocumentedClass(status[r]) = DL_UC
        BY <1>0, <1>5, DocumentedCases
           DEF DownloadRunning, DesiredDownload, hasFinished
    <2>4. DocumentedInv'
        BY <2>1, <2>3, FileDocumented
    <2>. QED BY <2>2, <2>4
<1>6. ASSUME NEW r \in Requests, UploadSucceeded(r) PROVE IInv'
    <2> DEFINE class == IF status[r].kind = "dir" THEN UP_C_DIR ELSE UP_C
    <2>1. /\ r \in todo /\ File(r, None, class) /\ Leave(r) /\ class \in Classes
        BY <1>6, ClassFamilies DEF UploadSucceeded, UPLOAD_CLASSES
    <2> HIDE DEF class
    <2>2. TypeOK' /\ FreshInv' /\ CountInv' /\ FiledOnce' /\ ReadingInv'
        <3>1. totalQueueUploadSize' \in Nat
            BY <1>0, <1>6, KnownSizeType DEF UploadSucceeded, AddUploadSize, TypeOK
        <3>2. /\ lowestQueuedPriority' \in 0 .. MinimumPriority
              /\ totalQueueDownloadSize' \in Nat
            BY <1>6 DEF UploadSucceeded, TypeOK
        <3>. QED BY <2>1, <3>1, <3>2, FileKeeps
    <2>3. DocumentedClass(status[r]) = class
        BY <1>0, <1>6, DocumentedCases DEF UploadSucceeded, DesiredUpload, class
    <2>4. DocumentedInv'
        BY <2>1, <2>3, FileDocumented
    <2>. QED BY <2>2, <2>4
<1>7. ASSUME NEW r \in Requests, UploadFailed(r) PROVE IInv'
    <2> DEFINE class == IF status[r].kind = "dir" THEN UP_F_DIR ELSE UP_F
    <2>1. /\ r \in todo /\ File(r, None, class) /\ Leave(r) /\ class \in Classes
        BY <1>7, NoneAssumption, ClassFamilies DEF UploadFailed, UPLOAD_CLASSES, TypeOK
    <2> HIDE DEF class
    <2>2. TypeOK' /\ FreshInv' /\ CountInv' /\ FiledOnce' /\ ReadingInv'
        <3>1. totalQueueUploadSize' \in Nat
            BY <1>0, <1>7, KnownSizeType DEF UploadFailed, AddUploadSize, TypeOK
        <3>2. /\ lowestQueuedPriority' \in 0 .. MinimumPriority
              /\ totalQueueDownloadSize' \in Nat
            BY <1>7 DEF UploadFailed, TypeOK
        <3>. QED BY <2>1, <3>1, <3>2, FileKeeps
    <2>3. r \notin moved => status[r].state = "failed"
        BY <1>0, <1>7, NoneAssumption DEF UploadFailed, hasFinished, ReadingInv, Status
    <2>4. r \notin moved => DocumentedClass(status[r]) = class
        BY <1>0, <1>7, <2>3, DocumentedCases DEF UploadFailed, DesiredUpload, class
    <2>5. DocumentedInv'
        BY <2>1, <2>4, FileDocumented
    <2>. QED BY <2>2, <2>5
<1>8. ASSUME NEW r \in Requests, UploadRunning(r) PROVE IInv'
    <2> DEFINE class == IF status[r].kind = "dir" THEN UP_UC_DIR ELSE UP_UC
    <2>1. /\ r \in todo /\ File(r, None, class) /\ Leave(r) /\ class \in Classes
        BY <1>8, NoneAssumption, ClassFamilies DEF UploadRunning, UPLOAD_CLASSES, TypeOK
    <2> HIDE DEF class
    <2>2. TypeOK' /\ FreshInv' /\ CountInv' /\ FiledOnce' /\ ReadingInv'
        <3>1. lowestQueuedPriority' \in 0 .. MinimumPriority
            BY <1>0, <1>8, LowerPriorityType DEF UploadRunning
        <3>2. totalQueueUploadSize' \in Nat /\ totalQueueDownloadSize' \in Nat
            BY <1>0, <1>8, KnownSizeType DEF UploadRunning, AddUploadSize, TypeOK
        <3>. QED BY <2>1, <3>1, <3>2, FileKeeps
    <2>3. DocumentedClass(status[r]) = class
        BY <1>0, <1>8, DocumentedCases
           DEF UploadRunning, DesiredUpload, hasFinished, class
    <2>4. DocumentedInv'
        BY <2>1, <2>3, FileDocumented
    <2>. QED BY <2>2, <2>4
<1>9. ASSUME NEW r \in Requests, NEW state \in {"succeeded", "failed"},
             NodeFinishes(r, state)
      PROVE  IInv'
    <2>1. /\ \A q \in Requests : q # r => status'[q] = status[q]
          /\ status' \in [Requests -> Status]
        BY <1>0, <1>9 DEF NodeFinishes, TypeOK, Status
    <2>2. TypeOK'
        BY <1>9, <2>1 DEF NodeFinishes, TypeOK
    <2>3. FreshInv' /\ CountInv' /\ FiledOnce'
        BY <1>9 DEF NodeFinishes, FreshInv, CountInv, QueueSizeCounts, FiledOnce
    <2>4. ReadingInv'
        BY <1>9, <2>1 DEF NodeFinishes, ReadingInv, TypeOK
    <2>5. DocumentedInv'
        <3>1. /\ \A q \in Requests : Filed(q)' = Filed(q)
              /\ requestedClass' = requestedClass /\ todo' = todo
              /\ moved' = moved \cup {r}
            BY <1>9 DEF NodeFinishes, Filed
        <3>2. SUFFICES
                ASSUME isDesired(DL_F), NEW q \in Requests \ moved, q \notin todo,
                       q # r, DocumentedClass(status[q]) # DL_C_DISK
                PROVE  Filed(q)' = IF isDesired(DocumentedClass(status[q]))
                                   THEN {DocumentedClass(status[q])} ELSE {}
            BY <2>1, <3>1 DEF DocumentedInv, isDesired, DocumentedClass
        <3>. QED BY <3>1, <3>2 DEF DocumentedInv
    <2>. QED BY <2>2, <2>3, <2>4, <2>5
<1>10. CASE UNCHANGED vars
    BY <1>10 DEF vars, TypeOK, FreshInv, CountInv, QueueSizeCounts, FiledOnce,
                 ReadingInv, DocumentedInv, Filed, isDesired, DocumentedClass
<1>. QED BY <1>1, <1>2, <1>3, <1>4, <1>5, <1>6, <1>7, <1>8, <1>9, <1>10
         DEF Next, Constructor

-----------------------------------------------------------------------------
(* The lowest priority.                                                    *)

UnfinishedClasses == {DL_UC, UP_UC, UP_UC_DIR}

\* The classes of finished requests are others.
LEMMA FinishedClasses ==
    ASSUME NEW class \in {DL_C_TEMP, DL_F, DL_F_U_MIME, DL_F_B_MIME,
                          UP_C, UP_C_DIR, UP_F, UP_F_DIR}
    PROVE  class \notin UnfinishedClasses
<1>1. /\ "uc" \notin class /\ "u_uc" \notin class /\ "uc_dir" \notin class
    BY DEF DL_C_TEMP, DL_F, DL_F_U_MIME, DL_F_B_MIME, UP_C, UP_C_DIR, UP_F, UP_F_DIR,
           DL, UP
<1>. QED BY <1>1 DEF UnfinishedClasses, DL_UC, UP_UC, UP_UC_DIR

\* Filing a request under a class of finished ones leaves the lowest priority alone.
LEMMA FinishedKeepsLowest ==
    ASSUME LowestIsLowest, NEW r, NEW mime, NEW class, class \notin UnfinishedClasses,
           File(r, mime, class), Leave(r), UNCHANGED lowestQueuedPriority
    PROVE  LowestIsLowest'
<1>1. \A e \in entries' : e \in entries \/ e = <<class, mime, r>>
    BY DEF File
<1>. QED BY <1>1 DEF LowestIsLowest, Leave, UnfinishedClasses

\* A running request that is filed has its priority counted.
LEMMA RunningKeepsLowest ==
    ASSUME IInv, LowestIsLowest, NEW r \in Requests, NEW class,
           File(r, None, class), Leave(r), LowerPriority(status[r])
    PROVE  LowestIsLowest'
<1>1. \A e \in entries' : e \in entries \/ e = <<class, None, r>>
    BY DEF File
<1>2. /\ lowestQueuedPriority' \in Int /\ lowestQueuedPriority \in Int
      /\ lowestQueuedPriority' <= lowestQueuedPriority
      /\ lowestQueuedPriority' <= status[r].prio
    BY NumberAssumption DEF LowerPriority, IInv, TypeOK, Status
<1>3. \A e \in entries : status[e[3]].prio \in Int
    BY NumberAssumption DEF IInv, TypeOK, Status
<1>4. ASSUME NEW e \in entries', e[1] \in UnfinishedClasses
      PROVE  lowestQueuedPriority' <= status'[e[3]].prio
    <2>1. status' = status
        BY DEF Leave
    <2>2. CASE e \in entries
        <3>1. lowestQueuedPriority <= status[e[3]].prio
            BY <1>4, <2>2 DEF LowestIsLowest, UnfinishedClasses
        <3>. QED BY <1>2, <1>3, <2>1, <2>2, <3>1
    <2>3. CASE e = <<class, None, r>>
        BY <1>2, <2>1, <2>3
    <2>. QED BY <1>1, <1>4, <2>2, <2>3
<1>. QED BY <1>4 DEF LowestIsLowest, UnfinishedClasses

\* Every step keeps the lowest priority lowest.
LEMMA LowestStep == IInv /\ LowestIsLowest /\ [Next]_vars => LowestIsLowest'
<1> SUFFICES ASSUME IInv, LowestIsLowest, [Next]_vars PROVE LowestIsLowest'
    OBVIOUS
<1>1. ASSUME NEW r \in Requests, NotSucceeded(r) \/ Skip(r) PROVE LowestIsLowest'
    BY <1>1 DEF NotSucceeded, Skip, Leave, LowestIsLowest
<1>2. ASSUME NEW r \in Requests, DownloadSucceeded(r) PROVE LowestIsLowest'
    BY <1>2, FinishedClasses, FinishedKeepsLowest DEF DownloadSucceeded
<1>3. ASSUME NEW r \in Requests, DownloadFailed(r) PROVE LowestIsLowest'
    <2> DEFINE class == FailedClass(status[r])
               mime == IF class = DL_F THEN None ELSE status[r].mime
    <2>1. status[r] \in Status
        BY DEF IInv, TypeOK
    <2>2. class \notin UnfinishedClasses
        BY <2>1, FailedClassDocumented, FinishedClasses
    <2>3. File(r, mime, class) /\ Leave(r) /\ UNCHANGED lowestQueuedPriority
        BY <1>3 DEF DownloadFailed
    <2> HIDE DEF class, mime
    <2>. QED BY <2>2, <2>3, FinishedKeepsLowest
<1>4. ASSUME NEW r \in Requests, UploadSucceeded(r) PROVE LowestIsLowest'
    <2> DEFINE class == IF status[r].kind = "dir" THEN UP_C_DIR ELSE UP_C
    <2>1. class \notin UnfinishedClasses
        BY FinishedClasses
    <2>2. File(r, None, class) /\ Leave(r) /\ UNCHANGED lowestQueuedPriority
        BY <1>4 DEF UploadSucceeded
    <2> HIDE DEF class
    <2>. QED BY <2>1, <2>2, FinishedKeepsLowest
<1>5. ASSUME NEW r \in Requests, UploadFailed(r) PROVE LowestIsLowest'
    <2> DEFINE class == IF status[r].kind = "dir" THEN UP_F_DIR ELSE UP_F
    <2>1. class \notin UnfinishedClasses
        BY FinishedClasses
    <2>2. File(r, None, class) /\ Leave(r) /\ UNCHANGED lowestQueuedPriority
        BY <1>5 DEF UploadFailed
    <2> HIDE DEF class
    <2>. QED BY <2>1, <2>2, FinishedKeepsLowest
<1>6. ASSUME NEW r \in Requests, DownloadRunning(r) PROVE LowestIsLowest'
    BY <1>6, RunningKeepsLowest DEF DownloadRunning
<1>7. ASSUME NEW r \in Requests, UploadRunning(r) PROVE LowestIsLowest'
    <2> DEFINE class == IF status[r].kind = "dir" THEN UP_UC_DIR ELSE UP_UC
    <2>1. File(r, None, class) /\ Leave(r) /\ LowerPriority(status[r])
        BY <1>7 DEF UploadRunning
    <2> HIDE DEF class
    <2>. QED BY <2>1, RunningKeepsLowest
<1>8. ASSUME NEW r \in Requests, NEW state \in {"succeeded", "failed"},
             NodeFinishes(r, state)
      PROVE  LowestIsLowest'
    <2>1. \A q \in Requests : status'[q].prio = status[q].prio
        BY <1>8 DEF NodeFinishes, IInv, TypeOK, Status
    <2>2. \A e \in entries : e[3] \in Requests
        BY DEF IInv, TypeOK
    <2>. QED BY <1>8, <2>1, <2>2 DEF NodeFinishes, LowestIsLowest
<1>9. CASE UNCHANGED vars
    BY <1>9 DEF vars, LowestIsLowest
<1>. QED BY <1>1, <1>2, <1>3, <1>4, <1>5, <1>6, <1>7, <1>8, <1>9 DEF Next, Constructor

-----------------------------------------------------------------------------
(* The theorems.                                                           *)

\* The invariant holds in every run.
THEOREM Invariance == Spec => []IInv
BY InitInv, NextInv, PTL DEF Spec

\* Every variable of the constructor keeps its type: the sums never turn negative
\* and the lowest priority stays in the node's range.
THEOREM QueueTypes == Spec => []TypeOK
BY Invariance, PTL DEF IInv

\* queueSize is the number of requests filed, whatever the node does meanwhile.
THEOREM QueueSizeIsCount == Spec => []QueueSizeCounts
BY Invariance, PTL DEF IInv, CountInv

\* No request is in two lists, so the bidirectional maps can be built.
THEOREM ListsAreDisjoint == Spec => []FiledOnce
BY Invariance, PTL DEF IInv

\* A caller who asks for failed downloads finds every request the node left alone
\* where the flags say, except completed downloads to disk.
THEOREM FiledWhereDocumented == Spec => []FiledAsDocumented
<1>1. IInv => FiledAsDocumented
    BY DEF IInv, DocumentedInv, FiledAsDocumented
<1>. QED BY Invariance, <1>1, PTL

\* No unfinished request that is listed has a priority below the one the page shows as
\* the lowest, whatever the node finishes meanwhile.
THEOREM LowestPriority == Spec => []LowestIsLowest
<1>1. Init => LowestIsLowest
    BY DEF Init, LowestIsLowest
<1>. QED BY <1>1, Invariance, LowestStep, PTL DEF Spec
=============================================================================
