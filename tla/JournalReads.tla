---------------------------- MODULE JournalReads ----------------------------
(***************************************************************************)
(* Reading a journal: the frame of a record, the walk that correlates one   *)
(* command, the pages of a caller.  The walk and the pages take a record as *)
(* decoded, so a behaviour has one frame, or a journal and its readers.     *)
(***************************************************************************)
EXTENDS JournalReader, Envelope

readsVars == <<journal, scan, pages, wire>>

ReadsInit == ReaderInit /\ (wire = NoFrame \/ (WriteFrame /\ pages.phase = "unused"))

ReadsNext ==
    \/ wire = NoFrame /\ ReaderNext /\ UNCHANGED wire
    \/ WireNext /\ UNCHANGED readerVars

ReadsSpec == ReadsInit /\ [][ReadsNext]_readsVars
=============================================================================
