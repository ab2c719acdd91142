---- MODULE MessageIds ----
(* The identity every table, job and process of the pipeline shares: the id of *)
(* an inbound message row, which its outbound row refers to (replyToMessageId) *)
(* and its job is named after (jobId).                                         *)
CONSTANTS Messages,   \* inbound messages customers may send
          NoMessage   \* what a process that works on no message holds

ASSUME NoMessageAssumption == NoMessage \notin Messages
====
