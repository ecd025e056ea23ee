----------------------------- MODULE QueueHelper -----------------------------
(***************************************************************************)
(* QueueHelper sorts the node's global requests into queues: one list per  *)
(* queue class and one list per MIME type for the downloads that failed    *)
(* because of their content type.  A queue class is an int with two bits   *)
(* set: the bit of its family, DL or UP, and a bit of its own.  Here an    *)
(* int is the set of its bits, so that (base & target) == target is set    *)
(* inclusion and countOnes is cardinality.                                 *)
(*                                                                         *)
(* The statuses belong to the node.  With Live the node may update them    *)
(* while the constructor reads them.                                       *)
(***************************************************************************)
EXTENDS Integers, FiniteSets

CONSTANTS
    Requests,           \* the global requests
    Statuses,           \* the statuses a request can have
    Requested,          \* the queue classes a caller may ask for
    Mimes,              \* MIME types, stripped of their parameters
    Handled,            \* the MIME types ContentFilter has a handler for
    MinimumPriority,    \* RequestStarter.MINIMUM_PRIORITY_CLASS
    Live,               \* whether the node updates statuses meanwhile
    None                \* no request, no MIME type

Bits == {"DL", "c_disk", "c_temp", "f", "uc", "f_u_mime", "f_b_mime",
         "UP", "c", "c_dir", "uf", "f_dir", "u_uc", "uc_dir"}

DL          == {"DL"}
DL_C_DISK   == DL \cup {"c_disk"}
DL_C_TEMP   == DL \cup {"c_temp"}
DL_F        == DL \cup {"f"}
DL_UC       == DL \cup {"uc"}
DL_F_U_MIME == DL \cup {"f_u_mime"}
DL_F_B_MIME == DL \cup {"f_b_mime"}
UP          == {"UP"}
UP_C        == UP \cup {"c"}
UP_C_DIR    == UP \cup {"c_dir"}
UP_F        == UP \cup {"uf"}
UP_F_DIR    == UP \cup {"f_dir"}
UP_UC       == UP \cup {"u_uc"}
UP_UC_DIR   == UP \cup {"uc_dir"}

DOWNLOAD_CLASSES == {DL_C_DISK, DL_C_TEMP, DL_F, DL_UC, DL_F_U_MIME, DL_F_B_MIME}
UPLOAD_CLASSES   == {UP_C, UP_C_DIR, UP_F, UP_F_DIR, UP_UC, UP_UC_DIR}
Classes == DOWNLOAD_CLASSES \cup UPLOAD_CLASSES

\* A status: the kind of request, whether it runs, succeeded or failed, whether
\* a download goes to temp space, why it failed, its MIME type, priority and size.
Status == [kind : {"download", "upload", "dir"},
           state : {"running", "succeeded", "failed"},
           toTemp : BOOLEAN,
           code : {"unknown_mime", "bad_mime", "other"},
           mime : Mimes,
           prio : 0 .. MinimumPriority,
           size : Int]

ASSUME StatusAssumption == Statuses \subseteq Status
ASSUME RequestedAssumption == Requested \subseteq SUBSET Bits
ASSUME RequestsAssumption == IsFiniteSet(Requests)
ASSUME NoneAssumption == None \notin Requests /\ None \notin Mimes
ASSUME NumberAssumption == MinimumPriority \in Nat /\ Live \in BOOLEAN

VARIABLES
    status,                 \* the node's status of each request
    moved,                  \* history: requests the node has finished meanwhile
    requestedClass,         \* the constructor's argument
    todo,                   \* the requests the loop has not finished with
    reading,                \* the request found not succeeded, being read on
    entries,                \* <<class, MIME type or None, request>> filed
    queueSize,
    lowestQueuedPriority,
    totalQueueDownloadSize,
    totalQueueUploadSize

vars == <<status, moved, requestedClass, todo, reading, entries,
          queueSize, lowestQueuedPriority, totalQueueDownloadSize,
          totalQueueUploadSize>>

Init ==
    /\ status \in [Requests -> Statuses]
    /\ moved = {}
    /\ requestedClass \in Requested
    /\ todo = Requests
    /\ reading = None
    /\ entries = {}
    /\ queueSize = 0
    /\ lowestQueuedPriority = MinimumPriority
    /\ totalQueueDownloadSize = 0
    /\ totalQueueUploadSize = 0

-----------------------------------------------------------------------------
(* Helpers.                                                                *)

matches(base, target) == target \subseteq base

isDesired(targetClass) == matches(requestedClass, targetClass)

\* addToMap, and addToList with mime = None: file r if its class is desired.
File(r, mime, class) ==
    \/ /\ isDesired(class)
       /\ entries' = entries \cup {<<class, mime, r>>}
       /\ queueSize' = queueSize + 1
    \/ /\ ~isDesired(class)
       /\ UNCHANGED <<entries, queueSize>>

\* Mutant: the size of a request that has none, -1, is added too.
AnySize(s) == s.size

KnownSize(s) == IF s.size > 0 THEN s.size ELSE 0

\* Mutant: the comparison of the priorities turned round.
RaisePriority(s) ==
    lowestQueuedPriority' =
        IF s.prio > lowestQueuedPriority THEN s.prio ELSE lowestQueuedPriority

LowerPriority(s) ==
    lowestQueuedPriority' =
        IF s.prio < lowestQueuedPriority THEN s.prio ELSE lowestQueuedPriority

\* The loop is done with r.  The order of the array is any.
Leave(r) ==
    /\ todo' = todo \ {r}
    /\ reading' = None
    /\ UNCHANGED <<status, moved, requestedClass>>

-----------------------------------------------------------------------------
(* The checks begin with hasSucceeded().                                   *)

DesiredDownload(r) == status[r].kind = "download" /\ isDesired(DL)
DesiredUpload(r)   == status[r].kind \in {"upload", "dir"} /\ isDesired(UP)

\* hasSucceeded() returned false; hasFinished() is called next.
NotSucceeded(r) ==
    /\ reading = None
    /\ r \in todo
    /\ DesiredDownload(r) \/ DesiredUpload(r)
    /\ status[r].state # "succeeded"
    /\ reading' = r
    /\ UNCHANGED <<status, moved, requestedClass, todo, entries, queueSize,
                   lowestQueuedPriority, totalQueueDownloadSize,
                   totalQueueUploadSize>>

\* The request's family is not desired: the three checks return 0.
Skip(r) ==
    /\ reading = None
    /\ r \in todo
    /\ ~DesiredDownload(r) /\ ~DesiredUpload(r)
    /\ Leave(r)
    /\ UNCHANGED <<entries, queueSize, lowestQueuedPriority,
                   totalQueueDownloadSize, totalQueueUploadSize>>

-----------------------------------------------------------------------------
(* checkIfDownloadDesired                                                  *)

\* Both branches on toTempSpace() add to the list of DL_C_TEMP.
DownloadSucceeded(r) ==
    /\ reading = None
    /\ r \in todo
    /\ DesiredDownload(r)
    /\ status[r].state = "succeeded"
    /\ File(r, None, DL_C_TEMP)
    /\ Leave(r)
    /\ UNCHANGED <<lowestQueuedPriority, totalQueueDownloadSize,
                   totalQueueUploadSize>>

hasFinished(r) == status[r].state # "running"

\* Mutant: the check for a handler of the MIME type left out.
FailedClassByCode(s) ==
    [unknown_mime |-> DL_F_U_MIME, bad_mime |-> DL_F_B_MIME, other |-> DL_F][s.code]

\* A bad MIME type nothing handles counts as an unknown one.
FailedClass(s) ==
    IF s.code = "unknown_mime" \/ (s.code = "bad_mime" /\ s.mime \notin Handled)
    THEN DL_F_U_MIME
    ELSE IF s.code = "bad_mime" THEN DL_F_B_MIME
    ELSE DL_F

DownloadFailed(r) ==
    LET class == FailedClass(status[r]) IN
    /\ reading = r
    /\ DesiredDownload(r)
    /\ hasFinished(r) /\ isDesired(DL_F)
    /\ File(r, IF class = DL_F THEN None ELSE status[r].mime, class)
    /\ Leave(r)
    /\ UNCHANGED <<lowestQueuedPriority, totalQueueDownloadSize,
                   totalQueueUploadSize>>

\* "Request is still running": also one that has finished, if DL_F is not desired.
DownloadRunning(r) ==
    /\ reading = r
    /\ DesiredDownload(r)
    /\ ~(hasFinished(r) /\ isDesired(DL_F))
    /\ LowerPriority(status[r])
    /\ File(r, None, DL_UC)
    /\ totalQueueDownloadSize' = totalQueueDownloadSize + KnownSize(status[r])
    /\ Leave(r)
    /\ UNCHANGED totalQueueUploadSize

-----------------------------------------------------------------------------
(* checkIfUploadDesired, and checkIfUploadDirDesired for kind "dir".       *)

AddUploadSize(s) == totalQueueUploadSize' = totalQueueUploadSize + KnownSize(s)

\* Mutant: "if (hasFinished())" where the code has "else if".
UploadSucceededAndFinished(r) ==
    LET classes == {c \in {UP_C, UP_F} : isDesired(c)} IN
    /\ reading = None
    /\ r \in todo
    /\ DesiredUpload(r)
    /\ status[r].state = "succeeded"
    /\ entries' = entries \cup {<<c, None, r>> : c \in classes}
    /\ queueSize' = queueSize + Cardinality(classes)
    /\ AddUploadSize(status[r])
    /\ Leave(r)
    /\ UNCHANGED <<lowestQueuedPriority, totalQueueDownloadSize>>

UploadSucceeded(r) ==
    /\ reading = None
    /\ r \in todo
    /\ DesiredUpload(r)
    /\ status[r].state = "succeeded"
    /\ File(r, None, IF status[r].kind = "dir" THEN UP_C_DIR ELSE UP_C)
    /\ AddUploadSize(status[r])
    /\ Leave(r)
    /\ UNCHANGED <<lowestQueuedPriority, totalQueueDownloadSize>>

UploadFailed(r) ==
    /\ reading = r
    /\ DesiredUpload(r)
    /\ hasFinished(r)
    /\ File(r, None, IF status[r].kind = "dir" THEN UP_F_DIR ELSE UP_F)
    /\ AddUploadSize(status[r])
    /\ Leave(r)
    /\ UNCHANGED <<lowestQueuedPriority, totalQueueDownloadSize>>

UploadRunning(r) ==
    /\ reading = r
    /\ DesiredUpload(r)
    /\ ~hasFinished(r)
    /\ LowerPriority(status[r])
    /\ File(r, None, IF status[r].kind = "dir" THEN UP_UC_DIR ELSE UP_UC)
    /\ AddUploadSize(status[r])
    /\ Leave(r)
    /\ UNCHANGED totalQueueDownloadSize

-----------------------------------------------------------------------------
\* The constructor's loop.
Constructor ==
    \E r \in Requests :
        \/ NotSucceeded(r) \/ Skip(r)
        \/ DownloadSucceeded(r) \/ DownloadFailed(r) \/ DownloadRunning(r)
        \/ UploadSucceeded(r) \/ UploadFailed(r) \/ UploadRunning(r)

\* The node finishes a request, for better or worse (external).
NodeFinishes(r, state) ==
    /\ Live
    /\ todo # {}
    /\ status[r].state = "running"
    /\ status' = [status EXCEPT ![r].state = state, ![r].code = "other"]
    /\ moved' = moved \cup {r}
    /\ UNCHANGED <<requestedClass, todo, reading, entries, queueSize,
                   lowestQueuedPriority, totalQueueDownloadSize,
                   totalQueueUploadSize>>

Next ==
    \/ Constructor
    \/ \E r \in Requests, state \in {"succeeded", "failed"} : NodeFinishes(r, state)

Spec == Init /\ [][Next]_vars

-----------------------------------------------------------------------------
(* Correctness.                                                            *)

TypeOK ==
    /\ status \in [Requests -> Status]
    /\ moved \subseteq Requests
    /\ requestedClass \in Requested
    /\ todo \subseteq Requests
    /\ reading \in todo \cup {None}
    /\ entries \subseteq Classes \X (Mimes \cup {None}) \X Requests
    /\ queueSize \in Nat
    /\ lowestQueuedPriority \in 0 .. MinimumPriority
    /\ totalQueueDownloadSize \in Nat
    /\ totalQueueUploadSize \in Nat

\* queueSize, which each add increments, is the number of requests in the lists
\* and maps together, even if the node finishes requests in the meantime.
QueueSizeCounts == queueSize = Cardinality(entries)

\* No request is in two lists.  No list is empty, so no two lists are equal and
\* the copies into bidirectional maps, which refuse equal values, succeed.
FiledOnce == \A e, f \in entries : e[3] = f[3] => e = f

\* The class the comments on the flags, and the log message on bad MIME types,
\* give a status.
DocumentedClass(s) ==
    LET pick(running, failed, succeeded) ==
            IF s.state = "running" THEN running
            ELSE IF s.state = "failed" THEN failed ELSE succeeded
    IN  IF s.kind = "upload" THEN pick(UP_UC, UP_F, UP_C)
        ELSE IF s.kind = "dir" THEN pick(UP_UC_DIR, UP_F_DIR, UP_C_DIR)
        ELSE pick(DL_UC,
                  IF s.code = "other" THEN DL_F
                  ELSE IF s.code = "bad_mime" /\ s.mime \in Handled
                  THEN DL_F_B_MIME ELSE DL_F_U_MIME,
                  IF s.toTemp THEN DL_C_TEMP ELSE DL_C_DISK)

\* The classes a request is filed under.
Filed(r) == {e[1] : e \in {f \in entries : f[3] = r}}

\* A caller who asks for failed downloads, among whatever else, gets every request
\* that the node leaves alone under its documented class if that is asked for,
\* and nowhere else; only completed downloads to disk are not where they should.
FiledAsDocumented ==
    todo = {} /\ isDesired(DL_F) =>
        \A r \in Requests \ moved :
            LET class == DocumentedClass(status[r]) IN
            class # DL_C_DISK =>
                Filed(r) = IF isDesired(class) THEN {class} ELSE {}

\* No unfinished request in the result has a priority below the lowest found.
LowestIsLowest ==
    \A e \in entries : e[1] \in {DL_UC, UP_UC, UP_UC_DIR} =>
        lowestQueuedPriority <= status[e[3]].prio
=============================================================================
