-------------------------------- MODULE Log ---------------------------------
(***************************************************************************)
(* The logger, log.c: a message goes to the file of its day, which         *)
(* log_write opens when it has none and when the day of the month changes. *)
(* Threads run log_write without any lock; the result of localtime is one  *)
(* static object they share.  A file is opened for writing, which empties  *)
(* it, and never closed.  The content of a file is the number of its       *)
(* messages; formatting is left out.                                       *)
(***************************************************************************)
EXTENDS Naturals, Sequences, FiniteSets

CONSTANTS
    Threads,
    Days,           \* the days the clock goes through: their days of the month
    UserFiles,      \* the files log_file is given
    NULL,
    LevelsSet,      \* the levels log_setlevel is given
    LevelsLogged,   \* the levels of messages
    MaxOpen,        \* how many streams a process may have open
    MaxMessages     \* bound: messages written

ASSUME LogAssumption ==
    /\ Days \in Seq(1 .. 31) /\ Len(Days) > 0
    /\ NULL \notin UserFiles /\ NULL \notin Nat /\ UserFiles \cap Nat = {}
    /\ LevelsSet \subseteq 0 .. 5 /\ LevelsLogged \subseteq 0 .. 5
    /\ MaxOpen \in Nat /\ MaxMessages \in Nat

VARIABLES
    g_log_level, g_out_fp, day_value, need_check, g_print,  \* log.c:14-18, 88
    tm,             \* what localtime points to: a day, by its number
    open,           \* streams opened
    today,          \* the clock
    disk,           \* how many messages each file holds
    alive,          \* FALSE once the process wrote to NULL
    th,             \* where each thread is in log_print or log_file
    hist            \* history, for the properties

settings == <<g_log_level, g_print>>
logger   == <<g_out_fp, day_value, need_check, tm>>
vars     == <<settings, logger, open, today, disk, alive, th, hist>>

DayFiles == 1 .. Len(Days)          \* named by the date
Files    == DayFiles \cup UserFiles
Idle     == [at |-> "idle", day |-> 0, file |-> NULL, change |-> FALSE]

(* owed: the messages of this process each file must still hold; raced: a  *)
(* thread logged while another opened a file, or its localtime was         *)
(* overwritten with another day before it was read; failed: log_write      *)
(* could not open its last file; choice: the day on which log_file last    *)
(* set the file after a message of the same day, or 0.                     *)
Unbroken == [owed |-> [f \in Files |-> 0], raced |-> FALSE, failed |-> FALSE,
             choice |-> 0]

Resting == [t \in Threads |-> Idle]

Init ==
    /\ g_log_level = 4 /\ g_print = "log_write"
    /\ g_out_fp = NULL /\ day_value = 0 /\ need_check = FALSE
    /\ tm = 1 /\ open = 0 /\ today = 1
    /\ disk = [f \in Files |-> 0]
    /\ alive = TRUE
    /\ th = Resting
    /\ hist = Unbroken

(* Threads race when one is opening a file and another is at work, and     *)
(* when the result of localtime changes to another day under one.          *)
Opening(x) == x.at \in {"open", "set"}
Overlap(s) == \E t, u \in Threads :
                 t # u /\ Opening(s[t]) /\ s[u].at # "idle"
TimeTaken == \E t \in Threads : th[t].at = "check" /\ th[t].day # today
Go(t, x) == th' = [th EXCEPT ![t] = x]
Note(h) == hist' = [h EXCEPT !.raced = @ \/ Overlap(th')]

-----------------------------------------------------------------------------
(* log_print with the message written by log_write, up to localtime, when  *)
(* the time of the message is printed; a callback takes it otherwise.      *)
(* The clock is read (line 55) in the same step as localtime (line 57): a  *)
(* thread between the two logs as one that called after midnight or, with  *)
(* the old time, as one at "check", where the clock may pass midnight too. *)
log_print(t, level) ==
    /\ alive /\ th[t].at = "idle"
    /\ g_print = "log_write" /\ g_log_level >= level
    /\ \A f \in Files : disk[f] < MaxMessages
    /\ tm' = today
    /\ Go(t, [Idle EXCEPT !.at = "check", !.day = today])
    /\ Note([hist EXCEPT !.raced = @ \/ TimeTaken])
    /\ UNCHANGED <<settings, g_out_fp, day_value, need_check, open, today, disk, alive>>

NeedsFile == ~need_check \/ g_out_fp = NULL
(* A fault: the day of the first file is not kept. *)
FirstForgotten == day_value
FirstDay == Days[tm]
(* A fault: a new day is not seen once a file is open. *)
NoChange == FALSE
(* A fault: any file but the one of the day is given up. *)
OtherFile == g_out_fp # tm
DayChanged == Days[tm] # day_value

Check(t) ==
    /\ alive /\ th[t].at = "check"
    /\ \/ /\ NeedsFile
          /\ day_value' = FirstDay
          /\ need_check' = TRUE
          /\ Go(t, [th[t] EXCEPT !.at = "open", !.file = tm])
       \/ /\ ~NeedsFile /\ DayChanged
          /\ Go(t, [th[t] EXCEPT !.at = "open", !.file = tm, !.change = TRUE])
          /\ UNCHANGED <<day_value, need_check>>
       \/ /\ ~NeedsFile /\ ~DayChanged
          /\ Go(t, [th[t] EXCEPT !.at = "write"])
          /\ UNCHANGED <<day_value, need_check>>
    /\ Note(hist)
    /\ UNCHANGED <<settings, g_out_fp, tm, open, today, disk, alive>>

(* log_file, called by the program. *)
log_file(t, f) ==
    /\ alive /\ th[t].at = "idle"
    /\ Go(t, [Idle EXCEPT !.at = "open", !.file = f])
    /\ Note(hist)
    /\ UNCHANGED <<settings, logger, open, today, disk, alive>>

ByUser(t) == th[t].file \in UserFiles

(* What log_write does after log_file: it keeps a day that changed.        *)
Opened(t) ==
    /\ day_value' = IF th[t].change THEN Days[tm] ELSE day_value
    /\ Go(t, IF ByUser(t) THEN Idle ELSE [th[t] EXCEPT !.at = "write"])

(* fopen, which empties the file. *)
Fopen(t) ==
    /\ alive /\ th[t].at = "open"
    /\ open < MaxOpen
    /\ open' = open + 1
    /\ disk' = [disk EXCEPT ![th[t].file] = 0]
    /\ Go(t, [th[t] EXCEPT !.at = "set"])
    /\ Note([hist EXCEPT !.owed[th[t].file] = IF ByUser(t) THEN 0 ELSE @])
    /\ UNCHANGED <<settings, logger, today, alive>>

SetFile(t) ==
    /\ alive /\ th[t].at = "set"
    /\ g_out_fp' = th[t].file
    /\ Opened(t)
    /\ Note(IF ~ByUser(t) THEN [hist EXCEPT !.failed = FALSE]
            ELSE [hist EXCEPT !.choice = IF NeedsFile \/ day_value # Days[today]
                                         THEN 0 ELSE today])
    /\ UNCHANGED <<settings, need_check, tm, open, today, disk, alive>>

(* A fault: what fopen returns is kept whatever it is. *)
KeptWhatever == NULL
KeptOnFailure == g_out_fp

(* fopen may fail, and does when no stream is left. *)
FopenFails(t) ==
    /\ alive /\ th[t].at = "open"
    /\ g_out_fp' = KeptOnFailure
    /\ Opened(t)
    /\ Note([hist EXCEPT !.failed = @ \/ ~ByUser(t)])
    /\ UNCHANGED <<settings, need_check, tm, open, today, disk, alive>>

(* fprintf; to NULL, it is the end of the process. *)
Write(t) ==
    /\ alive /\ th[t].at = "write"
    /\ Go(t, Idle)
    /\ Note(IF g_out_fp = NULL THEN hist
            ELSE [hist EXCEPT !.owed[g_out_fp] = @ + 1])
    /\ alive' = (g_out_fp # NULL)
    /\ disk' = IF g_out_fp = NULL THEN disk ELSE [disk EXCEPT ![g_out_fp] = @ + 1]
    /\ UNCHANGED <<settings, logger, open, today>>
-----------------------------------------------------------------------------
log_setlevel(level) ==
    /\ alive
    /\ g_log_level' = level
    /\ UNCHANGED <<g_print, logger, open, today, disk, alive, th, hist>>

(* NULL is ignored, so there is no way back. *)
log_init ==
    /\ alive
    /\ g_print' = "callback"
    /\ UNCHANGED <<g_log_level, logger, open, today, disk, alive, th, hist>>

Midnight ==
    /\ today < Len(Days)
    /\ today' = today + 1
    /\ UNCHANGED <<settings, logger, open, disk, alive, th, hist>>

(* The process ends, or has ended, and starts again; the files remain. *)
Restart ==
    /\ g_log_level' = 4 /\ g_print' = "log_write"
    /\ g_out_fp' = NULL /\ day_value' = 0 /\ need_check' = FALSE
    /\ tm' = 1 /\ open' = 0
    /\ alive' = TRUE
    /\ th' = Resting
    /\ hist' = Unbroken
    /\ UNCHANGED <<today, disk>>

Step(t) == Check(t) \/ Fopen(t) \/ FopenFails(t) \/ SetFile(t) \/ Write(t)

Next ==
    \/ \E t \in Threads :
          \/ \E level \in LevelsLogged : log_print(t, level)
          \/ \E f \in UserFiles : log_file(t, f)
          \/ Step(t)
    \/ \E level \in LevelsSet : log_setlevel(level)
    \/ log_init \/ Midnight \/ Restart

Spec == Init /\ [][Next]_vars
-----------------------------------------------------------------------------
(* log_write never loses a message this process has written, by opening    *)
(* once more, and so emptying, a file it has used: unless a thread logs    *)
(* while another opens a file.  (A message of an earlier process on the    *)
(* same day is lost.)                                                      *)
NothingLost ==
    ~hist.raced => \A f \in Files : hist.owed[f] <= disk[f]

(* A message goes to a file of its own day of the month, unless log_write  *)
(* could not open one, or log_file was given one.                          *)
OwnDay ==
    \A t \in Threads :
        th[t].at = "write" /\ ~hist.raced /\ ~hist.failed
          /\ g_out_fp \in DayFiles
        => Days[g_out_fp] = Days[th[t].day]

(* A file given to log_file is kept for the day, if log_write had its file *)
(* of that day already: not, against log.h:40, if no message came before.  *)
ChoiceLasts ==
    \A t \in Threads :
        th[t].at = "write" /\ ~hist.raced /\ th[t].day = hist.choice
        => g_out_fp \in UserFiles

(* Whatever the threads do, log_write writes to NULL only in a process in  *)
(* which no log_file has succeeded yet: a file is never given up for one   *)
(* that cannot be opened.                                                  *)
NullOnlyWithoutFile ==
    ~alive => open = Cardinality({t \in Threads : th[t].at = "set"})
=============================================================================
