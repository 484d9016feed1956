---------------------------- MODULE ControlInbox ----------------------------
(***************************************************************************)
(* The control file of a running job (lib/inbox.mjs).  "steer" is a        *)
(* process that looks at the status of the job and appends a line; the     *)
(* engine of the job polls the file from a cursor that counts lines.  The  *)
(* engine makes its watcher once it has waited for a slot and spawned pi,  *)
(* while the job is recorded as running before, and stops it before the    *)
(* end of the job is recorded.                                             *)
(*                                                                         *)
(* "torn" in Faults: an append may be read before all of it is in the      *)
(* file.  The half of a line is a line for the cursor, and does not parse. *)
(***************************************************************************)
EXTENDS Integers, SequencesExt

CONSTANTS
  Senders,        (* calls of commandSteer, one message each                 *)
  Faults

VARIABLES
  job,            (* status of the job in the list                           *)
  sender,         (* where each sender is                                    *)
  lines,          (* the file: whose line it is                              *)
  half,           (* is its last line only half there?                       *)
  engine,         (* its watcher: none, watching, stopped                    *)
  cursor,
  delivered,      (* messages handed to handleControl, in order              *)
  lapsed          (* messages that came too early, too late, or were read    *)
                  (* when half was there (history)                           *)

vars == <<job, sender, lines, half, engine, cursor, delivered, lapsed>>

TypeOK ==
  /\ job \in {"pending", "running", "done"}
  /\ sender \in [Senders -> {"look", "push", "writing", "sent", "refused"}]
  /\ lines \in Seq(Senders) /\ half \in BOOLEAN
  /\ engine \in {"none", "watching", "stopped"}
  /\ cursor \in 0 .. Len(lines)
  /\ delivered \in Seq(Senders)
  /\ lapsed \subseteq Senders

Init ==
  /\ job = "pending"
  /\ sender = [s \in Senders |-> "look"]
  /\ lines = <<>> /\ half = FALSE
  /\ engine = "none" /\ cursor = 0
  /\ delivered = <<>> /\ lapsed = {}
-----------------------------------------------------------------------------
(* The run and its engine.                                                   *)
StartRun ==
  /\ job = "pending" /\ job' = "running"
  /\ UNCHANGED <<sender, lines, half, engine, cursor, delivered, lapsed>>

(* createInboxWatcher: what is in the file by then is taken as read.         *)
Watch ==
  /\ job = "running" /\ engine = "none"
  /\ engine' = "watching"
  /\ cursor' = Len(lines)
  /\ UNCHANGED <<job, sender, lines, half, delivered, lapsed>>

(* Mutant: the file is read from its beginning.                              *)
AllMessages(from) == SubSeq(lines, 1, IF half THEN Len(lines) - 1 ELSE Len(lines))

(* readControlMessages: whole lines from the cursor on.                      *)
Messages(from) ==
  SubSeq(lines, from + 1, IF half THEN Len(lines) - 1 ELSE Len(lines))

Drain ==
  /\ engine = "watching" /\ cursor < Len(lines)
  /\ delivered' = delivered \o Messages(cursor)
  /\ cursor' = Len(lines)
  /\ lapsed' = IF half THEN lapsed \cup {Last(lines)} ELSE lapsed
  /\ UNCHANGED <<job, sender, lines, half, engine>>

(* The session closes; the end of the job is recorded later.                 *)
Stop ==
  /\ engine = "watching" /\ engine' = "stopped"
  /\ lapsed' = lapsed \cup Range(SubSeq(lines, cursor + 1, Len(lines)))
  /\ UNCHANGED <<job, sender, lines, half, cursor, delivered>>

RecordEnd ==
  /\ engine = "stopped" /\ job = "running" /\ job' = "done"
  /\ UNCHANGED <<sender, lines, half, engine, cursor, delivered, lapsed>>
-----------------------------------------------------------------------------
(* commandSteer: only a running job is steered.                              *)
LookAtJob(s) ==
  /\ sender[s] = "look"
  /\ sender' = [sender EXCEPT ![s] = IF job = "running" THEN "push" ELSE "refused"]
  /\ UNCHANGED <<job, lines, half, engine, cursor, delivered, lapsed>>

(* pushControlMessage.                                                       *)
Push(s) ==
  /\ sender[s] = "push" /\ ~half
  /\ lines' = Append(lines, s)
  /\ \/ half' = FALSE /\ sender' = [sender EXCEPT ![s] = "sent"]
     \/ "torn" \in Faults /\ half' = TRUE /\ sender' = [sender EXCEPT ![s] = "writing"]
  /\ lapsed' = IF engine = "watching" THEN lapsed ELSE lapsed \cup {s}
  /\ UNCHANGED <<job, engine, cursor, delivered>>

RestOfLine(s) ==
  /\ sender[s] = "writing"
  /\ half' = FALSE /\ sender' = [sender EXCEPT ![s] = "sent"]
  /\ UNCHANGED <<job, lines, engine, cursor, delivered, lapsed>>

Sends(s) == LookAtJob(s) \/ Push(s) \/ RestOfLine(s)

Next == StartRun \/ Watch \/ Drain \/ Stop \/ RecordEnd \/ \E s \in Senders : Sends(s)

Spec == Init /\ [][Next]_vars
-----------------------------------------------------------------------------
(* A message is delivered once at most, and messages in the order in which   *)
(* they are in the file, whatever the polls fall between.                    *)
DeliveredOnceInOrder ==
  \A i, j \in DOMAIN delivered, m, n \in DOMAIN lines :
    i < j /\ delivered[i] = lines[m] /\ delivered[j] = lines[n] => m < n

(* A message that is sent while the engine watches, and is not half there    *)
(* when it is read, is delivered, or is still before the cursor.             *)
NoMessageDropped ==
  Range(lines) \subseteq ToSet(delivered) \cup lapsed \cup Range(SubSeq(lines, cursor + 1, Len(lines)))

(* What is said to a running job while it can be told arrives, once and in   *)
(* the order in which it was said.                                           *)
MessagesArrive == DeliveredOnceInOrder /\ NoMessageDropped
=============================================================================
