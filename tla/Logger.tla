------------------------------- MODULE Logger -------------------------------
(***************************************************************************)
(* AppLogger::write_log of src/src/common/common_logger.cpp: the choice   *)
(* of the file a log line goes to.  The logger keeps m_max_file_count     *)
(* files, named by a sequence number (and in daily mode by the date); a   *)
(* file is reopened with "wb", truncating it, when the day changes, when  *)
(* more than m_max_size KB were printed into it, or when no file is open. *)
(* The first file of a run is found by probing for the first sequence     *)
(* number with no file; later ones follow in turn.                        *)
(*                                                                         *)
(* write_log runs on the logger's queue thread only (ASYNC mode), one     *)
(* line at a time, so a run of the logger is a fold of write_log over the *)
(* lines.  A line is one unit of m_printed_size, and the size limit is    *)
(* MaxLines units.  A file is <<day, seq>>; outside daily mode its day is *)
(* 0.  A line arrives on a day, and the fopen "wb" it may cause fails or  *)
(* not; localtime_r failing is not modelled.                              *)
(***************************************************************************)
EXTENDS Naturals, Sequences, SequencesExt

CONSTANTS
  MaxFiles,   \* m_max_file_count
  MaxLines    \* m_max_size * 1024, in lines

ASSUME MaxFiles \in Nat \ {0} /\ MaxLines \in Nat

Null == <<>>   \* no file: NULL m_file, an empty m_log_file_path

(* The name sprintf builds into szFileName. *)
FileName(daily, day, seq) == IF daily THEN <<day, seq>> ELSE <<0, seq>>

(* AppLogger's constructor, then initialize(dir, daily, ...): no file.    *)
(* disk holds the files earlier runs left; opened lists the files this    *)
(* run opened with "wb", in order (a ghost of the log).                   *)
InitLogger(daily, disk) ==
  [daily |-> daily, day |-> 0, seq |-> 0, path |-> Null, file |-> Null,
   printed |-> 0, disk |-> disk, opened |-> <<>>]

(* The test of the first if: a new day, too much printed, a sequence      *)
(* number past the count, or no open file.                                *)
MustRotate(st, day) ==
  \/ st.daily /\ st.day # day
  \/ st.printed > MaxLines
  \/ st.seq > MaxFiles
  \/ st.file = Null

(***************************************************************************)
(* The do-while loop: advance the sequence number cyclically; while       *)
(* m_log_file_path is empty, keep going while the file exists (fopen      *)
(* "rb" succeeds), and once the last number was found taken take the     *)
(* next one (bLoop).  With a path set, the loop runs once.                *)
(***************************************************************************)
RECURSIVE ProbeSeq(_, _, _, _)

ProbeSeq(st, day, seq, bLoop) ==
  LET s == (seq % MaxFiles) + 1 IN
  IF st.path # Null \/ bLoop \/ FileName(st.daily, day, s) \notin st.disk THEN s
  ELSE ProbeSeq(st, day, s, s = MaxFiles)

(* The reopening: m_seq reset on a new day or past the count, the loop,   *)
(* the path kept, the open file closed, fopen "wb" (which creates or      *)
(* truncates the file) and, when it succeeded, the size and day reset.    *)
Rotate(st, day, fails) ==
  LET seq0 == IF (st.daily /\ st.day # day) \/ st.seq > MaxFiles THEN 0 ELSE st.seq
      seq == ProbeSeq(st, day, seq0, FALSE)
      name == FileName(st.daily, day, seq)
  IN IF fails
     THEN [st EXCEPT !.seq = seq, !.path = name, !.file = Null, !.printed = 0]
     ELSE [st EXCEPT !.seq = seq, !.path = name, !.file = name, !.printed = 0,
                     !.day = day, !.disk = @ \cup {name}, !.opened = Append(@, name)]

(* write_log for one line arriving on day, whose fopen fails or not: the  *)
(* rotation if due, then fprintf into the open file.                      *)
write_log(st, day, fails) ==
  LET r == IF MustRotate(st, day) THEN Rotate(st, day, fails) ELSE st
  IN IF r.file # Null THEN [r EXCEPT !.printed = @ + 1] ELSE r

(* The logger after the lines of lines, each a [day, fails] record. *)
RunLogger(daily, disk, lines) ==
  FoldLeft(LAMBDA st, l : write_log(st, l.day, l.fails), InitLogger(daily, disk), lines)

====
