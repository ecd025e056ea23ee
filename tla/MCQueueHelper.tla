---------------------------- MODULE MCQueueHelper ----------------------------
(* Small instances of QueueHelper for TLC. *)
EXTENDS QueueHelper, TLC

Symmetry == Permutations(Requests)

DownloadStatuses ==
    [kind : {"download"}, state : {"running"}, toTemp : {TRUE}, code : {"other"},
     mime : {"a"}, prio : {0, 1}, size : {-1, 1}]
    \cup [kind : {"download"}, state : {"succeeded"}, toTemp : BOOLEAN,
          code : {"other"}, mime : {"a"}, prio : {1}, size : {1}]
    \cup [kind : {"download"}, state : {"failed"}, toTemp : {TRUE},
          code : {"unknown_mime", "bad_mime", "other"}, mime : Mimes, prio : {0},
          size : {1}]

UploadStatuses ==
    [kind : {"upload", "dir"}, state : {"running", "succeeded", "failed"},
     toTemp : {FALSE}, code : {"other"}, mime : {"a"}, prio : {0, 1}, size : {-1, 1}]

AllStatuses == DownloadStatuses \cup UploadStatuses

DL_ALL == UNION DOWNLOAD_CLASSES
UP_ALL == UNION UPLOAD_CLASSES

\* Every combination of two classes and the two families' meta flags.
Combinations ==
    {c \cup d : c, d \in Classes} \cup {DL_ALL, UP_ALL, DL_ALL \cup UP_ALL}
=============================================================================
