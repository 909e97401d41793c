--------------------------- MODULE WriteOnceArchive ---------------------------
(***************************************************************************)
(* What the archive promises, without queues, retries or crashes: a        *)
(* message that exists can be stored, in some form, and what is stored is  *)
(* neither altered nor removed.  CapturePipeline and AwsStack implement it.*)
(***************************************************************************)
EXTENDS Naturals

CONSTANTS MaxRow, MaxForm

VARIABLES chat,    \* messages that exist are 1..chat
          archive  \* message -> the form stored, 0 if none

Init == chat = 0 /\ archive = [r \in 1..MaxRow |-> 0]

Write == chat' = chat + 1 /\ UNCHANGED archive

(* Any number of messages at once, each for the first time.                *)
Store ==
  /\ archive' \in [1..MaxRow -> 0..MaxForm]
  /\ \A r \in 1..MaxRow : archive'[r] # archive[r] => archive[r] = 0 /\ r <= chat
  /\ UNCHANGED chat

Spec == Init /\ [][Write \/ Store]_<<chat, archive>>
=============================================================================
