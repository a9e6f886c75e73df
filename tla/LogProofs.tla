----------------------------- MODULE LogProofs -----------------------------
(***************************************************************************)
(* Proofs about the logger, for any threads, days, files and levels.       *)
(*                                                                         *)
(* Nothing is locked, so what is true of the static variables holds only   *)
(* while no thread is at work as another opens a file, and no thread's     *)
(* localtime is overwritten with another day: until hist.raced.  Then a    *)
(* thread that opens a file is alone, and what log_write has compared      *)
(* before it opened one is still true when it writes.                      *)
(***************************************************************************)
EXTENDS Log, FiniteSetTheorems, TLAPS

Callers ==
    [at : {"idle", "check", "open", "set", "write"}, day : Nat,
     file : Files \cup {NULL}, change : BOOLEAN]
Histories ==
    [owed : [Files -> Nat], raced : BOOLEAN, failed : BOOLEAN, choice : Nat]

(* Threads that write a message, perhaps opening its file first. *)
DayOpening(t) == Opening(th[t]) /\ ~ByUser(t)
AtWork(t) == th[t].at \in {"check", "write"} \/ DayOpening(t)

(* The types of the variables that files depend on; the thread with a file *)
(* to open has one, and with a message the day it is of.                   *)
Typed ==
    /\ g_out_fp \in Files \cup {NULL} /\ day_value \in Nat /\ need_check \in BOOLEAN
    /\ tm \in DayFiles /\ today \in DayFiles /\ tm <= today
    /\ open \in Nat /\ alive \in BOOLEAN
    /\ disk \in [Files -> Nat]
    /\ th \in [Threads -> Callers]
    /\ hist \in Histories
    /\ \A t \in Threads :
          /\ Opening(th[t]) => th[t].file \in Files
          /\ AtWork(t) => th[t].day # 0

(* Once a file of the day was asked for, need_check stays; once a file is  *)
(* there, g_out_fp does.                                                   *)
Started ==
    /\ \A t \in Threads :
          Opening(th[t]) => IF ByUser(t) THEN ~th[t].change ELSE need_check
    /\ \A f \in Files : hist.owed[f] > 0 => g_out_fp # NULL
    /\ \A f \in DayFiles : hist.owed[f] > 0 \/ g_out_fp = f => need_check

(* Who opens a file is alone. *)
Alone == ~hist.raced => ~Overlap(th)

(* What tm and day_value say of the threads at work. *)
Dated ==
    ~hist.raced =>
        \A t \in Threads :
           /\ th[t].at = "check" => th[t].day = tm
           /\ th[t].at = "write" => day_value = Days[th[t].day]
           /\ DayOpening(t) =>
                 /\ th[t].file = tm /\ th[t].day = tm
                 /\ ~th[t].change => day_value = Days[tm]

(* A file of a day holds messages, or is in use, up to the day in tm; if   *)
(* it is that of tm, day_value is its day, so log_write sees no change.    *)
Kept ==
    ~hist.raced =>
        /\ \A f \in DayFiles :
              hist.owed[f] > 0 \/ g_out_fp = f =>
                 f <= tm /\ (f = tm => day_value = Days[tm])
        /\ \A t \in Threads :
              th[t].at = "open" /\ ~ByUser(t) => hist.owed[th[t].file] = 0

(* The file in use is of the day in day_value, if no fopen failed. *)
Current ==
    ~hist.raced /\ ~hist.failed =>
        \A f \in DayFiles : g_out_fp = f => Days[f] = day_value

(* The file that was chosen is in use, or a later day has begun. *)
Chosen ==
    /\ g_out_fp \in UserFiles /\ day_value = Days[hist.choice]
    /\ \A t \in Threads : ~DayOpening(t)
Passed ==
    /\ tm > hist.choice
    /\ \A t \in Threads : AtWork(t) => th[t].day > hist.choice
Choosing ==
    ~hist.raced /\ hist.choice # 0 =>
        /\ hist.choice <= today /\ need_check /\ g_out_fp # NULL
        /\ \A t \in Threads : AtWork(t) => th[t].day >= hist.choice
        /\ Chosen \/ Passed

(* Until there is a file, the streams opened are those not yet set. *)
Setting == {t \in Threads : th[t].at = "set"}
Streams ==
    /\ g_out_fp = NULL => open = Cardinality(Setting)
    /\ ~alive => g_out_fp = NULL

IInv == /\ Typed /\ Started /\ Alone /\ Dated /\ Kept /\ Current
        /\ Choosing /\ Streams /\ NothingLost

----------------------------------------------------------------------------
(* What a step does to the threads and to the history *)

(* A thread goes on; the others stay where they are. *)
LEMMA GoIs ==
    ASSUME Typed, NEW t \in Threads, NEW x \in Callers, Go(t, x)
    PROVE  /\ th' \in [Threads -> Callers] /\ th'[t] = x
           /\ \A u \in Threads : u # t => th'[u] = th[u]
BY DEF Typed, Go

(* The threads have not raced if they had not and do not. *)
LEMMA NoteIs ==
    ASSUME NEW h \in Histories, Note(h)
    PROVE  /\ hist' \in Histories
           /\ hist'.owed = h.owed /\ hist'.failed = h.failed
           /\ hist'.choice = h.choice
           /\ ~hist'.raced => ~h.raced
           /\ ~hist'.raced => ~Overlap(th')
<1> DEFINE r == h.raced \/ Overlap(th')
<1>1. hist' = [h EXCEPT !.raced = r]
  BY DEF Note
<1>2. r \in BOOLEAN
  OBVIOUS
<1> HIDE DEF r
<1>3. /\ hist' \in Histories /\ hist'.raced = r
      /\ hist'.owed = h.owed /\ hist'.failed = h.failed /\ hist'.choice = h.choice
  BY <1>1, <1>2 DEF Histories
<1> QED
  BY <1>3 DEF r

(* Two threads, of which one opens a file and the other is at work, race. *)
LEMMA Apart ==
    ASSUME Typed, Alone, ~hist.raced, NEW t \in Threads, Opening(th[t])
    PROVE  \A u \in Threads : u # t => th[u].at = "idle"
BY DEF Alone, Overlap, Opening

(* log_write has taken the time of its message (lines 53-55). *)
LEMMA AfterPrint ==
    ASSUME Typed, NEW t \in Threads, NEW level, log_print(t, level)
    PROVE  /\ th' \in [Threads -> Callers]
           /\ th'[t].at = "check" /\ th'[t].day = today
           /\ th[t].at = "idle" /\ alive
           /\ \A u \in Threads : u # t => th'[u] = th[u]
           /\ hist' \in Histories
           /\ hist'.owed = hist.owed /\ hist'.failed = hist.failed
           /\ hist'.choice = hist.choice
           /\ ~hist'.raced => ~hist.raced /\ ~TimeTaken /\ ~Overlap(th')
           /\ tm' = today /\ today' = today /\ disk' = disk /\ open' = open
           /\ alive' = alive /\ g_out_fp' = g_out_fp /\ day_value' = day_value
           /\ need_check' = need_check
<1> DEFINE x == [Idle EXCEPT !.at = "check", !.day = today]
           h == [hist EXCEPT !.raced = @ \/ TimeTaken]
<1>1. x \in Callers /\ x.at = "check" /\ x.day = today
  <2>1. Idle \in Callers /\ today \in Nat
    BY DEF Typed, Idle, Callers, DayFiles
  <2> QED
    BY <2>1 DEF Callers
<1>2. /\ h \in Histories /\ h.owed = hist.owed /\ h.failed = hist.failed
      /\ h.choice = hist.choice /\ (h.raced <=> hist.raced \/ TimeTaken)
  <2> DEFINE r == hist.raced \/ TimeTaken
  <2>1. r \in BOOLEAN /\ h = [hist EXCEPT !.raced = r] /\ hist \in Histories
    BY DEF Typed
  <2> HIDE DEF r
  <2>2. /\ h \in Histories /\ h.raced = r /\ h.owed = hist.owed
        /\ h.failed = hist.failed /\ h.choice = hist.choice
    BY <2>1 DEF Histories
  <2> QED
    BY <2>2 DEF r
<1>3. Go(t, x) /\ Note(h)
  BY DEF log_print
<1> HIDE DEF x, h
<1>4. /\ th' \in [Threads -> Callers] /\ th'[t] = x
      /\ \A u \in Threads : u # t => th'[u] = th[u]
  BY <1>1, <1>3, GoIs
<1>5. /\ hist' \in Histories
      /\ hist'.owed = h.owed /\ hist'.failed = h.failed /\ hist'.choice = h.choice
      /\ ~hist'.raced => ~h.raced
      /\ ~hist'.raced => ~Overlap(th')
  BY <1>2, <1>3, NoteIs
<1> QED
  BY <1>1, <1>2, <1>4, <1>5 DEF log_print, settings

(* log_write has tested need_check and the day (lines 60-80). *)
LEMMA AfterCheck ==
    ASSUME Typed, NEW t \in Threads, Check(t)
    PROVE  /\ th' \in [Threads -> Callers]
           /\ th[t].at = "check" /\ th'[t].day = th[t].day /\ alive
           /\ \A u \in Threads : u # t => th'[u] = th[u]
           /\ hist' \in Histories
           /\ hist'.owed = hist.owed /\ hist'.failed = hist.failed
           /\ hist'.choice = hist.choice
           /\ ~hist'.raced => ~hist.raced /\ ~Overlap(th')
           /\ tm' = tm /\ today' = today /\ disk' = disk /\ open' = open
           /\ alive' = alive /\ g_out_fp' = g_out_fp
           /\ \/ /\ NeedsFile /\ day_value' = Days[tm] /\ need_check'
                 /\ th'[t].at = "open" /\ th'[t].file = tm
                 /\ th'[t].change = th[t].change
              \/ /\ ~NeedsFile /\ DayChanged /\ th'[t].at = "open"
                 /\ th'[t].file = tm /\ th'[t].change
                 /\ day_value' = day_value /\ need_check' = need_check
              \/ /\ ~NeedsFile /\ ~DayChanged /\ th'[t].at = "write"
                 /\ day_value' = day_value /\ need_check' = need_check
<1> DEFINE a == [th[t] EXCEPT !.at = "open", !.file = tm]
           b == [th[t] EXCEPT !.at = "open", !.file = tm, !.change = TRUE]
           c == [th[t] EXCEPT !.at = "write"]
<1>0. th[t] \in Callers /\ tm \in Files /\ hist \in Histories
  BY DEF Typed, Files
<1>1. /\ a \in Callers /\ a.at = "open" /\ a.day = th[t].day /\ a.file = tm
      /\ a.change = th[t].change
  BY <1>0 DEF Callers
<1>2. b \in Callers /\ b.at = "open" /\ b.day = th[t].day /\ b.file = tm /\ b.change
  BY <1>0 DEF Callers
<1>3. c \in Callers /\ c.at = "write" /\ c.day = th[t].day
  BY <1>0 DEF Callers
<1>4. Go(t, a) \/ Go(t, b) \/ Go(t, c)
  BY DEF Check
<1>5. /\ hist' \in Histories /\ hist'.owed = hist.owed
      /\ hist'.failed = hist.failed /\ hist'.choice = hist.choice
      /\ ~hist'.raced => ~hist.raced
      /\ ~hist'.raced => ~Overlap(th')
  <2>1. Note(hist)
    BY DEF Check
  <2> QED
    BY <1>0, <2>1, NoteIs
<1>6. /\ th[t].at = "check" /\ alive /\ tm' = tm /\ today' = today /\ disk' = disk
      /\ open' = open /\ alive' = alive /\ g_out_fp' = g_out_fp
      /\ \/ NeedsFile /\ day_value' = FirstDay /\ need_check' = TRUE /\ Go(t, a)
         \/ /\ ~NeedsFile /\ DayChanged /\ Go(t, b)
            /\ day_value' = day_value /\ need_check' = need_check
         \/ /\ ~NeedsFile /\ ~DayChanged /\ Go(t, c)
            /\ day_value' = day_value /\ need_check' = need_check
  BY DEF Check
<1> HIDE DEF a, b, c
<1>7. CASE NeedsFile /\ day_value' = FirstDay /\ need_check' = TRUE /\ Go(t, a)
  BY <1>1, <1>5, <1>6, <1>7, GoIs DEF FirstDay
<1>8. CASE /\ ~NeedsFile /\ DayChanged /\ Go(t, b)
           /\ day_value' = day_value /\ need_check' = need_check
  BY <1>2, <1>5, <1>6, <1>8, GoIs
<1>9. CASE /\ ~NeedsFile /\ ~DayChanged /\ Go(t, c)
           /\ day_value' = day_value /\ need_check' = need_check
  BY <1>3, <1>5, <1>6, <1>9, GoIs
<1> QED
  BY <1>6, <1>7, <1>8, <1>9

(* The program is about to open a file (line 98). *)
LEMMA AfterLogFile ==
    ASSUME Typed, NEW t \in Threads, NEW f \in UserFiles, log_file(t, f)
    PROVE  /\ th' \in [Threads -> Callers]
           /\ th[t].at = "idle" /\ alive
           /\ th'[t].at = "open" /\ th'[t].file = f /\ ~th'[t].change
           /\ \A u \in Threads : u # t => th'[u] = th[u]
           /\ hist' \in Histories
           /\ hist'.owed = hist.owed /\ hist'.failed = hist.failed
           /\ hist'.choice = hist.choice
           /\ ~hist'.raced => ~hist.raced /\ ~Overlap(th')
           /\ tm' = tm /\ today' = today /\ disk' = disk /\ open' = open
           /\ alive' = alive /\ g_out_fp' = g_out_fp /\ day_value' = day_value
           /\ need_check' = need_check
<1> DEFINE x == [Idle EXCEPT !.at = "open", !.file = f]
<1>1. x \in Callers /\ x.at = "open" /\ x.file = f /\ ~x.change
  BY DEF Typed, Idle, Callers, Files
<1>2. Go(t, x) /\ Note(hist) /\ hist \in Histories
  BY DEF log_file, Typed
<1> HIDE DEF x
<1>3. /\ th' \in [Threads -> Callers] /\ th'[t] = x
      /\ \A u \in Threads : u # t => th'[u] = th[u]
  BY <1>1, <1>2, GoIs
<1>4. /\ hist' \in Histories /\ hist'.owed = hist.owed
      /\ hist'.failed = hist.failed /\ hist'.choice = hist.choice
      /\ ~hist'.raced => ~hist.raced
      /\ ~hist'.raced => ~Overlap(th')
  BY <1>2, NoteIs
<1> QED
  BY <1>1, <1>3, <1>4 DEF log_file, logger

(* What the rest of log_write finds after log_file (lines 77-79). *)
LEMMA OpenedIs ==
    ASSUME Typed, NEW t \in Threads, Opened(t)
    PROVE  /\ th' \in [Threads -> Callers]
           /\ \A u \in Threads : u # t => th'[u] = th[u]
           /\ th'[t].at = IF ByUser(t) THEN "idle" ELSE "write"
           /\ ~ByUser(t) => th'[t].day = th[t].day
           /\ day_value' = IF th[t].change THEN Days[tm] ELSE day_value
<1> DEFINE x == [th[t] EXCEPT !.at = "write"]
<1>0. th[t] \in Callers
  BY DEF Typed
<1>1. x \in Callers /\ x.at = "write" /\ x.day = th[t].day
  BY <1>0 DEF Callers
<1>2. Idle \in Callers /\ Idle.at = "idle"
  BY DEF Idle, Callers
<1>3. Go(t, IF ByUser(t) THEN Idle ELSE x)
  BY DEF Opened
<1> HIDE DEF x
<1>4. CASE ByUser(t)
  BY <1>2, <1>3, <1>4, GoIs DEF Opened
<1>5. CASE ~ByUser(t)
  BY <1>1, <1>3, <1>5, GoIs DEF Opened
<1> QED
  BY <1>4, <1>5

(* fopen has emptied the file (line 100). *)
LEMMA AfterFopen ==
    ASSUME Typed, NEW t \in Threads, Fopen(t)
    PROVE  /\ th' \in [Threads -> Callers]
           /\ th[t].at = "open" /\ alive /\ th[t].file \in Files
           /\ th'[t].at = "set" /\ th'[t].file = th[t].file
           /\ th'[t].day = th[t].day /\ th'[t].change = th[t].change
           /\ \A u \in Threads : u # t => th'[u] = th[u]
           /\ hist' \in Histories
           /\ \A f \in Files :
                 hist'.owed[f] = IF f = th[t].file /\ ByUser(t) THEN 0 ELSE hist.owed[f]
           /\ hist'.failed = hist.failed /\ hist'.choice = hist.choice
           /\ ~hist'.raced => ~hist.raced /\ ~Overlap(th')
           /\ tm' = tm /\ today' = today /\ open' = open + 1
           /\ disk' \in [Files -> Nat]
           /\ \A f \in Files : disk'[f] = IF f = th[t].file THEN 0 ELSE disk[f]
           /\ alive' = alive /\ g_out_fp' = g_out_fp /\ day_value' = day_value
           /\ need_check' = need_check
<1> DEFINE x == [th[t] EXCEPT !.at = "set"]
           o == [hist.owed EXCEPT ![th[t].file] = IF ByUser(t) THEN 0 ELSE @]
           h == [hist EXCEPT !.owed = o]
<1>0. /\ th[t] \in Callers /\ th[t].file \in Files /\ th[t].at = "open"
      /\ hist \in Histories
  BY DEF Typed, Fopen, Opening
<1>1. /\ x \in Callers /\ x.at = "set" /\ x.file = th[t].file
      /\ x.day = th[t].day /\ x.change = th[t].change
  BY <1>0 DEF Callers
<1>2. /\ o \in [Files -> Nat]
      /\ \A f \in Files :
            o[f] = IF f = th[t].file /\ ByUser(t) THEN 0 ELSE hist.owed[f]
  BY <1>0 DEF Histories
<1>3. Go(t, x) /\ Note(h)
  BY DEF Fopen
<1> HIDE DEF x, o
<1>4. /\ h \in Histories /\ h.owed = o /\ h.raced = hist.raced
      /\ h.failed = hist.failed /\ h.choice = hist.choice
  BY <1>0, <1>2 DEF Histories
<1> HIDE DEF h
<1>5. /\ th' \in [Threads -> Callers] /\ th'[t] = x
      /\ \A u \in Threads : u # t => th'[u] = th[u]
  BY <1>1, <1>3, GoIs
<1>6. /\ hist' \in Histories
      /\ hist'.owed = h.owed /\ hist'.failed = h.failed /\ hist'.choice = h.choice
      /\ ~hist'.raced => ~h.raced
      /\ ~hist'.raced => ~Overlap(th')
  BY <1>3, <1>4, NoteIs
<1>7. /\ disk' \in [Files -> Nat]
      /\ \A f \in Files : disk'[f] = IF f = th[t].file THEN 0 ELSE disk[f]
  BY <1>0 DEF Fopen, Typed
<1> QED
  BY <1>0, <1>1, <1>2, <1>4, <1>5, <1>6, <1>7 DEF Fopen, logger

(* log_file has a stream (lines 101-105). *)
LEMMA AfterSetFile ==
    ASSUME Typed, NEW t \in Threads, SetFile(t)
    PROVE  /\ th' \in [Threads -> Callers]
           /\ th[t].at = "set" /\ alive /\ th[t].file \in Files
           /\ th'[t].at = IF ByUser(t) THEN "idle" ELSE "write"
           /\ ~ByUser(t) => th'[t].day = th[t].day
           /\ \A u \in Threads : u # t => th'[u] = th[u]
           /\ hist' \in Histories
           /\ hist'.owed = hist.owed
           /\ ByUser(t) => /\ hist'.failed = hist.failed
                           /\ hist'.choice = IF NeedsFile \/ day_value # Days[today]
                                             THEN 0 ELSE today
           /\ ~ByUser(t) => hist'.choice = hist.choice
           /\ ~hist'.raced => ~hist.raced /\ ~Overlap(th')
           /\ tm' = tm /\ today' = today /\ disk' = disk /\ open' = open
           /\ alive' = alive /\ g_out_fp' = th[t].file
           /\ day_value' = IF th[t].change THEN Days[tm] ELSE day_value
           /\ need_check' = need_check
<1> DEFINE c == IF NeedsFile \/ day_value # Days[today] THEN 0 ELSE today
           g == [hist EXCEPT !.failed = FALSE]
           h == [hist EXCEPT !.choice = c]
<1>0. /\ th[t] \in Callers /\ th[t].file \in Files /\ th[t].at = "set"
      /\ hist \in Histories
  BY DEF Typed, SetFile, Opening
<1>1. c \in Nat
  BY DEF Typed, DayFiles
<1>2. Note(IF ~ByUser(t) THEN g ELSE h)
  BY DEF SetFile
<1>3. /\ g \in Histories /\ g.owed = hist.owed /\ g.raced = hist.raced
      /\ g.choice = hist.choice
  BY <1>0 DEF Histories
<1> HIDE DEF c, g
<1>4. /\ h \in Histories /\ h.owed = hist.owed /\ h.raced = hist.raced
      /\ h.failed = hist.failed /\ h.choice = c
  BY <1>0, <1>1 DEF Histories
<1> HIDE DEF h
<1>5. /\ th' \in [Threads -> Callers]
      /\ \A u \in Threads : u # t => th'[u] = th[u]
      /\ th'[t].at = IF ByUser(t) THEN "idle" ELSE "write"
      /\ ~ByUser(t) => th'[t].day = th[t].day
      /\ day_value' = IF th[t].change THEN Days[tm] ELSE day_value
  <2>1. Opened(t)
    BY DEF SetFile
  <2> QED
    BY <2>1, OpenedIs
<1>6. CASE ByUser(t)
  <2>1. /\ hist' \in Histories
        /\ hist'.owed = h.owed /\ hist'.failed = h.failed /\ hist'.choice = h.choice
        /\ ~hist'.raced => ~h.raced
        /\ ~hist'.raced => ~Overlap(th')
    BY <1>2, <1>4, <1>6, NoteIs
  <2> QED
    BY <1>0, <1>4, <1>5, <1>6, <2>1 DEF SetFile, c
<1>7. CASE ~ByUser(t)
  <2>1. /\ hist' \in Histories
        /\ hist'.owed = g.owed /\ hist'.choice = g.choice
        /\ ~hist'.raced => ~g.raced
        /\ ~hist'.raced => ~Overlap(th')
    BY <1>2, <1>3, <1>7, NoteIs
  <2> QED
    BY <1>0, <1>3, <1>5, <1>7, <2>1 DEF SetFile
<1> QED
  BY <1>6, <1>7

(* fopen has returned NULL (lines 101-107). *)
LEMMA AfterFopenFails ==
    ASSUME Typed, NEW t \in Threads, FopenFails(t)
    PROVE  /\ th' \in [Threads -> Callers]
           /\ th[t].at = "open" /\ alive /\ th[t].file \in Files
           /\ th'[t].at = IF ByUser(t) THEN "idle" ELSE "write"
           /\ ~ByUser(t) => th'[t].day = th[t].day
           /\ \A u \in Threads : u # t => th'[u] = th[u]
           /\ hist' \in Histories
           /\ hist'.owed = hist.owed /\ hist'.choice = hist.choice
           /\ hist'.failed <=> hist.failed \/ ~ByUser(t)
           /\ ~hist'.raced => ~hist.raced /\ ~Overlap(th')
           /\ tm' = tm /\ today' = today /\ disk' = disk /\ open' = open
           /\ alive' = alive /\ g_out_fp' = g_out_fp
           /\ day_value' = IF th[t].change THEN Days[tm] ELSE day_value
           /\ need_check' = need_check
<1> DEFINE r == hist.failed \/ ~ByUser(t)
           h == [hist EXCEPT !.failed = r]
<1>0. /\ th[t] \in Callers /\ th[t].file \in Files /\ th[t].at = "open"
      /\ hist \in Histories
  BY DEF Typed, FopenFails, Opening
<1>1. Note(h) /\ r \in BOOLEAN
  BY DEF FopenFails
<1> HIDE DEF r
<1>2. /\ h \in Histories /\ h.owed = hist.owed /\ h.raced = hist.raced
      /\ h.choice = hist.choice /\ h.failed = r
  BY <1>0, <1>1 DEF Histories
<1> HIDE DEF h
<1>3. /\ hist' \in Histories
      /\ hist'.owed = h.owed /\ hist'.failed = h.failed /\ hist'.choice = h.choice
      /\ ~hist'.raced => ~h.raced
      /\ ~hist'.raced => ~Overlap(th')
  BY <1>1, <1>2, NoteIs
<1>4. /\ th' \in [Threads -> Callers]
      /\ \A u \in Threads : u # t => th'[u] = th[u]
      /\ th'[t].at = IF ByUser(t) THEN "idle" ELSE "write"
      /\ ~ByUser(t) => th'[t].day = th[t].day
      /\ day_value' = IF th[t].change THEN Days[tm] ELSE day_value
  <2>1. Opened(t)
    BY DEF FopenFails
  <2> QED
    BY <2>1, OpenedIs
<1>5. hist'.failed <=> hist.failed \/ ~ByUser(t)
  BY <1>2, <1>3 DEF r
<1> QED
  BY <1>0, <1>2, <1>3, <1>4, <1>5 DEF FopenFails, KeptOnFailure

(* The message is in the file, or the process has ended (lines 82-85). *)
LEMMA AfterWrite ==
    ASSUME Typed, NEW t \in Threads, Write(t)
    PROVE  /\ th' \in [Threads -> Callers]
           /\ th[t].at = "write" /\ alive /\ th'[t].at = "idle"
           /\ \A u \in Threads : u # t => th'[u] = th[u]
           /\ hist' \in Histories
           /\ disk' \in [Files -> Nat]
           /\ \A f \in Files :
                 IF f = g_out_fp
                 THEN hist'.owed[f] = hist.owed[f] + 1 /\ disk'[f] = disk[f] + 1
                 ELSE hist'.owed[f] = hist.owed[f] /\ disk'[f] = disk[f]
           /\ hist'.failed = hist.failed /\ hist'.choice = hist.choice
           /\ ~hist'.raced => ~hist.raced /\ ~Overlap(th')
           /\ tm' = tm /\ today' = today /\ open' = open
           /\ alive' \in BOOLEAN /\ (~alive' => g_out_fp = NULL)
           /\ g_out_fp' = g_out_fp /\ day_value' = day_value
           /\ need_check' = need_check
<1> DEFINE o == [hist.owed EXCEPT ![g_out_fp] = @ + 1]
           h == [hist EXCEPT !.owed = o]
<1>0. hist \in Histories /\ NULL \notin Files /\ g_out_fp \in Files \cup {NULL}
  BY LogAssumption DEF Typed, Files, DayFiles
<1>1. /\ th' \in [Threads -> Callers] /\ th'[t].at = "idle"
      /\ \A u \in Threads : u # t => th'[u] = th[u]
  <2>1. Idle \in Callers /\ Idle.at = "idle" /\ Go(t, Idle)
    BY DEF Idle, Callers, Write
  <2> QED
    BY <2>1, GoIs
<1>2. CASE g_out_fp = NULL
  <2>1. /\ hist' \in Histories /\ hist'.owed = hist.owed
        /\ hist'.failed = hist.failed /\ hist'.choice = hist.choice
        /\ ~hist'.raced => ~hist.raced
        /\ ~hist'.raced => ~Overlap(th')
    <3>1. Note(hist)
      BY <1>2 DEF Write
    <3> QED
      BY <1>0, <3>1, NoteIs
  <2> QED
    BY <1>0, <1>1, <1>2, <2>1 DEF Write, logger, Typed
<1>3. CASE g_out_fp # NULL
  <2>1. /\ o \in [Files -> Nat]
        /\ \A f \in Files :
              o[f] = IF f = g_out_fp THEN hist.owed[f] + 1 ELSE hist.owed[f]
    BY <1>0, <1>3 DEF Histories
  <2>2. Note(h)
    BY <1>3 DEF Write
  <2> HIDE DEF o
  <2>3. /\ h \in Histories /\ h.owed = o /\ h.raced = hist.raced
        /\ h.failed = hist.failed /\ h.choice = hist.choice
    BY <1>0, <2>1 DEF Histories
  <2> HIDE DEF h
  <2>4. /\ hist' \in Histories
        /\ hist'.owed = h.owed /\ hist'.failed = h.failed /\ hist'.choice = h.choice
        /\ ~hist'.raced => ~h.raced
        /\ ~hist'.raced => ~Overlap(th')
    BY <2>2, <2>3, NoteIs
  <2>5. /\ disk' \in [Files -> Nat]
        /\ \A f \in Files :
              disk'[f] = IF f = g_out_fp THEN disk[f] + 1 ELSE disk[f]
    BY <1>0, <1>3 DEF Write, Typed
  <2> QED
    BY <1>0, <1>1, <1>3, <2>1, <2>3, <2>4, <2>5 DEF Write, logger
<1> QED
  BY <1>2, <1>3

----------------------------------------------------------------------------
(* The steps that files depend on, and those they do not. *)
core == <<logger, open, today, disk, alive, th, hist>>

LEMMA StepCases ==
    ASSUME [Next]_vars
    PROVE  \/ \E t \in Threads :
                 \/ \E level \in LevelsLogged : log_print(t, level)
                 \/ \E f \in UserFiles : log_file(t, f)
                 \/ Check(t) \/ Fopen(t) \/ FopenFails(t) \/ SetFile(t) \/ Write(t)
           \/ Midnight \/ Restart \/ UNCHANGED core
<1>1. CASE \E level \in LevelsSet : log_setlevel(level)
  BY <1>1 DEF log_setlevel, core
<1>2. CASE log_init
  BY <1>2 DEF log_init, core
<1>3. CASE UNCHANGED vars
  BY <1>3 DEF vars, core
<1> QED
  BY <1>1, <1>2, <1>3, Zenon DEF Next, Step

LEMMA FilesAre ==
    /\ NULL \notin Files /\ DayFiles \subseteq Files /\ UserFiles \subseteq Files
    /\ DayFiles \subseteq Nat \ {0} /\ UserFiles \cap DayFiles = {}
    /\ \A f \in Files : f \in DayFiles <=> f \notin UserFiles
    /\ \A d \in DayFiles : Days[d] \in Nat
    /\ 1 \in DayFiles
<1>1. Len(Days) \in Nat \ {0} /\ \A d \in 1 .. Len(Days) : Days[d] \in Nat
  <2> DEFINE numbers == 1 .. 31
  <2>1. Days \in Seq(numbers) /\ Len(Days) > 0 /\ numbers \subseteq Nat
    BY LogAssumption
  <2> HIDE DEF numbers
  <2>2. Len(Days) \in Nat
    BY <2>1
  <2>3. \A d \in 1 .. Len(Days) : Days[d] \in numbers
    BY <2>1
  <2>4. \A d \in 1 .. Len(Days) : Days[d] \in Nat
    BY <2>1, <2>3
  <2>5. Len(Days) # 0
    BY <2>1, <2>2
  <2> QED
    BY <2>2, <2>4, <2>5
<1>2. DayFiles \subseteq Nat \ {0} /\ UserFiles \cap DayFiles = {} /\ NULL \notin DayFiles
  BY <1>1, LogAssumption DEF DayFiles
<1>3. 1 \in DayFiles /\ \A d \in DayFiles : Days[d] \in Nat
  BY <1>1 DEF DayFiles
<1> QED
  BY <1>2, <1>3, LogAssumption DEF Files

(* A process starts (lines 14-18). *)
LEMMA AfterRestart ==
    ASSUME Restart
    PROVE  /\ th' \in [Threads -> Callers]
           /\ \A t \in Threads : th'[t].at = "idle"
           /\ hist' \in Histories /\ \A f \in Files : hist'.owed[f] = 0
           /\ ~hist'.raced /\ hist'.choice = 0
           /\ g_out_fp' = NULL /\ day_value' = 0 /\ ~need_check'
           /\ need_check' \in BOOLEAN
           /\ tm' = 1 /\ open' = 0 /\ alive' /\ alive' \in BOOLEAN
           /\ today' = today /\ disk' = disk
<1>1. Idle \in Callers /\ Idle.at = "idle"
  BY DEF Idle, Callers
<1>2. th' = [t \in Threads |-> Idle]
  BY DEF Restart, Resting
<1>3. /\ Unbroken \in Histories /\ \A f \in Files : Unbroken.owed[f] = 0
      /\ ~Unbroken.raced /\ Unbroken.choice = 0
  BY DEF Unbroken, Histories
<1> QED
  BY <1>1, <1>2, <1>3 DEF Restart

(* Every step keeps the types. *)
LEMMA TypedKept ==
    ASSUME Typed, [Next]_vars
    PROVE  Typed'
<1> USE FilesAre
<1>1. ASSUME NEW t \in Threads, NEW level, log_print(t, level) PROVE Typed'
  BY <1>1, AfterPrint DEF Typed, Opening, AtWork, DayOpening, ByUser
<1>2. ASSUME NEW t \in Threads, NEW f \in UserFiles, log_file(t, f) PROVE Typed'
  BY <1>2, AfterLogFile DEF Typed, Opening, AtWork, DayOpening, ByUser
<1>3. ASSUME NEW t \in Threads, Check(t) PROVE Typed'
  <2>1. /\ th' \in [Threads -> Callers] /\ hist' \in Histories
        /\ g_out_fp' = g_out_fp /\ tm' = tm /\ today' = today /\ open' = open
        /\ alive' = alive /\ disk' = disk
    BY <1>3, AfterCheck
  <2>5. day_value' \in Nat /\ need_check' \in BOOLEAN
    <3>1. /\ day_value' = day_value \/ day_value' = Days[tm]
          /\ need_check' = need_check \/ need_check' = TRUE
      BY <1>3, AfterCheck
    <3> QED
      BY <3>1, FilesAre DEF Typed
  <2>2. th'[t].day # 0
    BY <1>3, AfterCheck DEF Typed, AtWork
  <2>3. \A u \in Threads : u # t => (AtWork(u)' <=> AtWork(u)) /\ th'[u] = th[u]
    BY <1>3, AfterCheck DEF AtWork, DayOpening, Opening, ByUser
  <2>4. Opening(th'[t]) => th'[t].file = tm
    BY <1>3, AfterCheck DEF Opening
  <2> QED
    BY <2>1, <2>2, <2>3, <2>4, <2>5 DEF Typed
<1>4. ASSUME NEW t \in Threads, Fopen(t) PROVE Typed'
  BY <1>4, AfterFopen DEF Typed, Opening, AtWork, DayOpening, ByUser
<1>5. ASSUME NEW t \in Threads, FopenFails(t) PROVE Typed'
  BY <1>5, AfterFopenFails DEF Typed, Opening, AtWork, DayOpening, ByUser
<1>6. ASSUME NEW t \in Threads, SetFile(t) PROVE Typed'
  BY <1>6, AfterSetFile DEF Typed, Opening, AtWork, DayOpening, ByUser
<1>7. ASSUME NEW t \in Threads, Write(t) PROVE Typed'
  BY <1>7, AfterWrite DEF Typed, Opening, AtWork, DayOpening, ByUser
<1>8. CASE Midnight
  BY <1>8 DEF Midnight, logger, DayFiles, Typed, AtWork, DayOpening, ByUser
<1>9. CASE Restart
  BY <1>9, AfterRestart DEF Typed, Opening, AtWork, DayOpening, ByUser
<1>10. CASE UNCHANGED core
  BY <1>10 DEF core, logger, Typed, AtWork, DayOpening, ByUser
<1> QED
  BY <1>1, <1>2, <1>3, <1>4, <1>5, <1>6, <1>7, <1>8, <1>9, <1>10, StepCases, Zenon

(* A file is opened for a day once need_check is set, and only a stream that*)
(* is not NULL is kept.                                                    *)
LEMMA StartedKept ==
    ASSUME Typed, Started, [Next]_vars
    PROVE  Started'
<1> USE FilesAre
<1>1. ASSUME NEW t \in Threads, NEW level, log_print(t, level) PROVE Started'
  BY <1>1, AfterPrint DEF Typed, Started, Opening, ByUser, NeedsFile
<1>2. ASSUME NEW t \in Threads, NEW f \in UserFiles, log_file(t, f) PROVE Started'
  BY <1>2, AfterLogFile DEF Typed, Started, Opening, ByUser, NeedsFile
<1>3. ASSUME NEW t \in Threads, Check(t) PROVE Started'
  BY <1>3, AfterCheck DEF Typed, Started, Opening, ByUser, NeedsFile
<1>4. ASSUME NEW t \in Threads, Fopen(t) PROVE Started'
  BY <1>4, AfterFopen DEF Typed, Started, Opening, ByUser, NeedsFile
<1>5. ASSUME NEW t \in Threads, FopenFails(t) PROVE Started'
  BY <1>5, AfterFopenFails DEF Typed, Started, Opening, ByUser, NeedsFile
<1>6. ASSUME NEW t \in Threads, SetFile(t) PROVE Started'
  BY <1>6, AfterSetFile DEF Typed, Started, Opening, ByUser, NeedsFile
<1>7. ASSUME NEW t \in Threads, Write(t) PROVE Started'
  BY <1>7, AfterWrite DEF Typed, Started, Opening, ByUser, NeedsFile
<1>8. CASE Midnight
  BY <1>8 DEF Midnight, logger, Started, ByUser
<1>9. CASE Restart
  BY <1>9, AfterRestart DEF Typed, Started, Opening, ByUser, NeedsFile
<1>10. CASE UNCHANGED core
  BY <1>10 DEF core, logger, Started, ByUser
<1> QED
  BY <1>1, <1>2, <1>3, <1>4, <1>5, <1>6, <1>7, <1>8, <1>9, <1>10, StepCases, Zenon

(* The history notes every race. *)
LEMMA AloneKept ==
    ASSUME Typed, Alone, [Next]_vars
    PROVE  Alone'
<1> USE FilesAre
<1>1. ASSUME NEW t \in Threads, NEW level, log_print(t, level) PROVE Alone'
  BY <1>1, AfterPrint DEF Alone, Overlap, Opening
<1>2. ASSUME NEW t \in Threads, NEW f \in UserFiles, log_file(t, f) PROVE Alone'
  BY <1>2, AfterLogFile DEF Alone, Overlap, Opening
<1>3. ASSUME NEW t \in Threads, Check(t) PROVE Alone'
  BY <1>3, AfterCheck DEF Alone, Overlap, Opening
<1>4. ASSUME NEW t \in Threads, Fopen(t) PROVE Alone'
  BY <1>4, AfterFopen DEF Alone, Overlap, Opening
<1>5. ASSUME NEW t \in Threads, FopenFails(t) PROVE Alone'
  BY <1>5, AfterFopenFails DEF Alone, Overlap, Opening
<1>6. ASSUME NEW t \in Threads, SetFile(t) PROVE Alone'
  BY <1>6, AfterSetFile DEF Alone, Overlap, Opening
<1>7. ASSUME NEW t \in Threads, Write(t) PROVE Alone'
  BY <1>7, AfterWrite DEF Alone, Overlap, Opening
<1>8. CASE Midnight
  BY <1>8 DEF Midnight, Alone
<1>9. CASE Restart
  BY <1>9, AfterRestart DEF Alone, Overlap, Opening
<1>10. CASE UNCHANGED core
  BY <1>10 DEF core, logger, Alone, Overlap, Opening
<1> QED
  BY <1>1, <1>2, <1>3, <1>4, <1>5, <1>6, <1>7, <1>8, <1>9, <1>10, StepCases, Zenon

(* Only a thread that has the time of another day changes tm, and only one *)
(* that opens a file day_value.                                            *)
LEMMA DatedKept ==
    ASSUME Typed, Started, Alone, Dated, [Next]_vars
    PROVE  Dated'
<1> USE FilesAre
<1>1. ASSUME NEW t \in Threads, NEW level, log_print(t, level) PROVE Dated'
  BY <1>1, AfterPrint DEF Dated, DayOpening, Opening, Overlap, TimeTaken
<1>2. ASSUME NEW t \in Threads, NEW f \in UserFiles, log_file(t, f) PROVE Dated'
  BY <1>2, AfterLogFile DEF Dated, DayOpening, ByUser
<1>3. ASSUME NEW t \in Threads, Check(t) PROVE Dated'
  BY <1>3, AfterCheck DEF Dated, DayOpening, Opening, DayChanged, Overlap
<1>4. ASSUME NEW t \in Threads, Fopen(t) PROVE Dated'
  BY <1>4, AfterFopen DEF Dated, DayOpening, Opening, ByUser
<1>5. ASSUME NEW t \in Threads, FopenFails(t) PROVE Dated'
  BY <1>5, AfterFopenFails DEF Alone, Dated, DayOpening, Opening, Overlap
<1>6. ASSUME NEW t \in Threads, SetFile(t) PROVE Dated'
  BY <1>6, AfterSetFile DEF Alone, Dated, DayOpening, Opening, Overlap
<1>7. ASSUME NEW t \in Threads, Write(t) PROVE Dated'
  BY <1>7, AfterWrite DEF Dated, DayOpening, Opening, ByUser
<1>8. CASE Midnight
  BY <1>8 DEF Midnight, logger, Dated, DayOpening, ByUser
<1>9. CASE Restart
  BY <1>9, AfterRestart DEF Dated, DayOpening, Opening
<1>10. CASE UNCHANGED core
  BY <1>10 DEF core, logger, Dated, DayOpening, ByUser
<1> QED
  BY <1>1, <1>2, <1>3, <1>4, <1>5, <1>6, <1>7, <1>8, <1>9, <1>10, StepCases, Zenon

(* A file is opened for the day in tm when no message went to it yet. *)
LEMMA KeptKept ==
    ASSUME Typed, Started, Alone, Dated, Kept, [Next]_vars
    PROVE  Kept'
<1> USE FilesAre
<1>1. ASSUME NEW t \in Threads, NEW level, log_print(t, level) PROVE Kept'
  BY <1>1, AfterPrint DEF Typed, ByUser, Kept
<1>2. ASSUME NEW t \in Threads, NEW f \in UserFiles, log_file(t, f) PROVE Kept'
  <2>1. \A u \in Threads :
           th'[u].at = "open" /\ th'[u].file \notin UserFiles => th'[u] = th[u]
    BY <1>2, AfterLogFile
  <2>2. /\ ~hist'.raced => ~hist.raced
        /\ hist'.owed = hist.owed /\ g_out_fp' = g_out_fp /\ tm' = tm
        /\ day_value' = day_value
    BY <1>2, AfterLogFile
  <2> QED
    BY <2>1, <2>2 DEF ByUser, Kept
<1>3. ASSUME NEW t \in Threads, Check(t) PROVE Kept'
  <2> SUFFICES ASSUME ~hist'.raced PROVE Kept'
    BY DEF Kept
  <2>1. ~hist.raced /\ hist'.owed = hist.owed /\ g_out_fp' = g_out_fp /\ tm' = tm
    BY <1>3, AfterCheck
  <2>2. day_value' = day_value \/ day_value' = Days[tm]
    BY <1>3, AfterCheck
  <2>3. \A f \in DayFiles :
           hist.owed[f] > 0 \/ g_out_fp = f => f <= tm /\ (f = tm => day_value = Days[tm])
    BY <2>1 DEF Kept
  <2>4. ASSUME th'[t].at = "open" PROVE th'[t].file = tm /\ hist.owed[tm] = 0
    <3>1. th'[t].file = tm /\ (NeedsFile \/ DayChanged)
      BY <1>3, <2>4, AfterCheck
    <3>2. tm \in DayFiles /\ hist.owed[tm] \in Nat
      BY DEF Typed, Histories
    <3> QED
      BY <2>3, <3>1, <3>2 DEF NeedsFile, DayChanged, Started
  <2>5. \A u \in Threads :
           th'[u].at = "open" /\ ~ByUser(u)' => hist.owed[th'[u].file] = 0
    BY <1>3, <2>1, <2>4, AfterCheck DEF Kept, ByUser
  <2> QED
    BY <2>1, <2>2, <2>3, <2>5 DEF Kept
<1>4. ASSUME NEW t \in Threads, Fopen(t) PROVE Kept'
  BY <1>4, AfterFopen DEF Opening, Overlap, Kept
<1>5. ASSUME NEW t \in Threads, FopenFails(t) PROVE Kept'
  BY <1>5, AfterFopenFails DEF ByUser, Kept
<1>6. ASSUME NEW t \in Threads, SetFile(t) PROVE Kept'
  BY <1>6, AfterSetFile DEF Dated, DayOpening, Opening, ByUser, Kept
<1>7. ASSUME NEW t \in Threads, Write(t) PROVE Kept'
  BY <1>7, AfterWrite DEF Alone, Opening, Overlap, Kept
<1>8. CASE Midnight
  BY <1>8 DEF Midnight, logger, ByUser, Kept
<1>9. CASE Restart
  BY <1>9, AfterRestart DEF Kept
<1>10. CASE UNCHANGED core
  BY <1>10 DEF core, logger, ByUser, Kept
<1> QED
  BY <1>1, <1>2, <1>3, <1>4, <1>5, <1>6, <1>7, <1>8, <1>9, <1>10, StepCases, Zenon

(* Whoever sets g_out_fp sets day_value to its day. *)
LEMMA CurrentKept ==
    ASSUME Typed, Started, Alone, Dated, Current, [Next]_vars
    PROVE  Current'
<1> USE FilesAre
<1>1. ASSUME NEW t \in Threads, NEW level, log_print(t, level) PROVE Current'
  BY <1>1, AfterPrint DEF Current
<1>2. ASSUME NEW t \in Threads, NEW f \in UserFiles, log_file(t, f) PROVE Current'
  BY <1>2, AfterLogFile DEF Current
<1>3. ASSUME NEW t \in Threads, Check(t) PROVE Current'
  BY <1>3, AfterCheck DEF Started, NeedsFile, Current
<1>4. ASSUME NEW t \in Threads, Fopen(t) PROVE Current'
  BY <1>4, AfterFopen DEF Current
<1>5. ASSUME NEW t \in Threads, FopenFails(t) PROVE Current'
  BY <1>5, AfterFopenFails DEF Started, Opening, Current
<1>6. ASSUME NEW t \in Threads, SetFile(t) PROVE Current'
  BY <1>6, AfterSetFile DEF Dated, DayOpening, Opening, ByUser, Current
<1>7. ASSUME NEW t \in Threads, Write(t) PROVE Current'
  BY <1>7, AfterWrite DEF Current
<1>8. CASE Midnight
  BY <1>8 DEF Midnight, logger, Current
<1>9. CASE Restart
  BY <1>9, AfterRestart DEF Current
<1>10. CASE UNCHANGED core
  BY <1>10 DEF core, logger, Current
<1> QED
  BY <1>1, <1>2, <1>3, <1>4, <1>5, <1>6, <1>7, <1>8, <1>9, <1>10, StepCases, Zenon

(* A choice is given up for a file of a later day only. *)
LEMMA ChoosingKept ==
    ASSUME Typed, Started, Alone, Dated, Choosing, [Next]_vars
    PROVE  Choosing'
<1> USE FilesAre
<1>1. ASSUME NEW t \in Threads, NEW level, log_print(t, level) PROVE Choosing'
  <2> SUFFICES ASSUME ~hist'.raced, hist'.choice # 0
               PROVE  /\ hist.choice <= today /\ need_check' /\ g_out_fp' # NULL
                      /\ \A u \in Threads : AtWork(u)' => th'[u].day >= hist.choice
                      /\ Chosen' \/ Passed'
    BY <1>1, AfterPrint DEF Choosing
  <2>1. /\ hist.choice <= today /\ need_check /\ g_out_fp # NULL
        /\ \A u \in Threads : AtWork(u) => th[u].day >= hist.choice
        /\ Chosen \/ Passed
    BY <1>1, AfterPrint DEF Choosing
  <2>2. /\ \A u \in Threads : u # t => (AtWork(u)' <=> AtWork(u))
        /\ \A u \in Threads : u # t => (DayOpening(u)' <=> DayOpening(u))
        /\ ~DayOpening(t)'
    BY <1>1, AfterPrint DEF AtWork, DayOpening, Opening, ByUser
  <2>3. hist.choice \in Nat /\ today \in Nat /\ tm \in Nat
    BY DEF Typed, Histories, DayFiles
  <2>6. /\ \A u \in Threads : u # t => th'[u] = th[u]
        /\ th'[t].day = today /\ tm' = today /\ hist'.choice = hist.choice
        /\ need_check' = need_check /\ g_out_fp' = g_out_fp
        /\ day_value' = day_value
    BY <1>1, AfterPrint
  <2>7. \A u \in Threads : AtWork(u)' => th'[u].day >= hist.choice
    BY <2>1, <2>2, <2>3, <2>6
  <2>4. CASE Chosen
    <3>1. Chosen'
      BY <2>2, <2>4, <2>6 DEF Chosen
    <3> QED
      BY <2>1, <2>6, <2>7, <3>1
  <2>5. CASE Passed
    <3>1. today > hist.choice
      BY <2>3, <2>5 DEF Passed, Typed
    <3>2. Passed'
      BY <2>2, <2>3, <2>5, <2>6, <3>1 DEF Passed
    <3> QED
      BY <2>1, <2>6, <2>7, <3>2
  <2> QED
    BY <2>1, <2>4, <2>5
<1>2. ASSUME NEW t \in Threads, NEW f \in UserFiles, log_file(t, f) PROVE Choosing'
  BY <1>2, AfterLogFile DEF DayOpening, ByUser, Choosing, Chosen, Passed, AtWork
<1>3. ASSUME NEW t \in Threads, Check(t) PROVE Choosing'
  <2> SUFFICES ASSUME ~hist'.raced, hist'.choice # 0
               PROVE  /\ hist.choice <= today /\ need_check' /\ g_out_fp' # NULL
                      /\ \A u \in Threads : AtWork(u)' => th'[u].day >= hist.choice
                      /\ Chosen' \/ Passed'
    BY <1>3, AfterCheck DEF Choosing
  <2>1. /\ hist.choice <= today /\ need_check /\ g_out_fp # NULL
        /\ \A u \in Threads : AtWork(u) => th[u].day >= hist.choice
        /\ Chosen \/ Passed
    BY <1>3, AfterCheck DEF Choosing
  <2>2. /\ \A u \in Threads : u # t => (AtWork(u)' <=> AtWork(u))
        /\ \A u \in Threads : u # t => (DayOpening(u)' <=> DayOpening(u))
        /\ AtWork(t)
    BY <1>3, AfterCheck DEF AtWork, DayOpening, Opening, ByUser
  <2>3. /\ hist.choice \in Nat /\ tm \in Nat /\ ~NeedsFile
        /\ hist'.choice = hist.choice /\ tm' = tm /\ th'[t].day = th[t].day
    BY <1>3, <2>1, AfterCheck DEF Typed, Histories, DayFiles, NeedsFile
  <2>4. CASE th'[t].at = "write"
    <3>1. ~DayOpening(t)'
      BY <2>4 DEF DayOpening, Opening
    <3>2. CASE Chosen
      BY <1>3, <2>1, <2>2, <2>3, <2>4, <3>1, <3>2, AfterCheck DEF Chosen
    <3>3. CASE Passed
      BY <1>3, <2>1, <2>2, <2>3, <2>4, <3>3, AfterCheck DEF Passed
    <3> QED
      BY <1>3, <2>1, <2>2, <2>3, <2>4, <3>2, <3>3, AfterCheck
  <2>5. CASE th'[t].at # "write"
    <3>1. DayChanged /\ th'[t].at = "open"
      BY <1>3, <2>3, <2>5, AfterCheck
    <3>2. \A u \in Threads : u # t => th[u].at = "idle"
      BY <1>3, <3>1, AfterCheck DEF Overlap, Opening
    <3>3. \A u \in Threads : u # t => ~AtWork(u)
      BY <3>2 DEF AtWork, DayOpening, Opening
    <3>4. th[t].day = tm
      BY <1>3, AfterCheck DEF Dated
    <3>5. tm > hist.choice
      BY <2>1, <2>2, <2>3, <3>1, <3>4 DEF Chosen, Passed, DayChanged
    <3> QED
      BY <1>3, <2>1, <2>2, <2>3, <3>1, <3>3, <3>4, <3>5, AfterCheck DEF Passed
  <2> QED
    BY <2>4, <2>5
<1>4. ASSUME NEW t \in Threads, Fopen(t) PROVE Choosing'
  BY <1>4, AfterFopen DEF DayOpening, Opening, ByUser, Choosing, Chosen, Passed,
       AtWork
<1>5. ASSUME NEW t \in Threads, FopenFails(t) PROVE Choosing'
  BY <1>5, AfterFopenFails DEF Started, DayOpening, Opening, ByUser, Choosing,
       Chosen, Passed, AtWork
<1>6. ASSUME NEW t \in Threads, SetFile(t) PROVE Choosing'
  BY <1>6, AfterSetFile DEF Typed, Started, Alone, DayOpening, Opening, ByUser,
       NeedsFile, Overlap, Choosing, Chosen, Passed, AtWork
<1>7. ASSUME NEW t \in Threads, Write(t) PROVE Choosing'
  BY <1>7, AfterWrite DEF DayOpening, Opening, ByUser, Choosing, Chosen, Passed,
       AtWork
<1>8. CASE Midnight
  BY <1>8 DEF Midnight, logger, Typed, Histories, DayOpening, ByUser, Choosing,
       Chosen, Passed, AtWork
<1>9. CASE Restart
  BY <1>9, AfterRestart DEF Choosing
<1>10. CASE UNCHANGED core
  BY <1>10 DEF core, logger, DayOpening, ByUser, Choosing, Chosen, Passed, AtWork
<1> QED
  BY <1>1, <1>2, <1>3, <1>4, <1>5, <1>6, <1>7, <1>8, <1>9, <1>10, StepCases, Zenon

(* How many streams are opened and not yet set. *)
LEMMA StreamsKept ==
    ASSUME IsFiniteSet(Threads), Typed, Streams, [Next]_vars
    PROVE  Streams'
<1> USE FilesAre
<1>0. IsFiniteSet(Setting)
  BY FS_Subset DEF Setting
<1>1. ASSUME NEW t \in Threads, NEW level, log_print(t, level) PROVE Streams'
  <2>1. Setting' = Setting
    BY <1>1, AfterPrint DEF Setting
  <2> QED
    BY <1>1, <2>1, AfterPrint DEF Streams
<1>2. ASSUME NEW t \in Threads, NEW f \in UserFiles, log_file(t, f) PROVE Streams'
  <2>1. Setting' = Setting
    BY <1>2, AfterLogFile DEF Setting
  <2> QED
    BY <1>2, <2>1, AfterLogFile DEF Streams
<1>3. ASSUME NEW t \in Threads, Check(t) PROVE Streams'
  <2>1. Setting' = Setting
    BY <1>3, AfterCheck DEF Setting
  <2> QED
    BY <1>3, <2>1, AfterCheck DEF Streams
<1>4. ASSUME NEW t \in Threads, Fopen(t) PROVE Streams'
  <2>1. Setting' = Setting \cup {t} /\ t \notin Setting
    BY <1>4, AfterFopen DEF Setting
  <2>2. Cardinality(Setting') = Cardinality(Setting) + 1
    BY <1>0, <2>1, FS_AddElement
  <2> QED
    BY <1>4, <2>2, AfterFopen DEF Streams
<1>5. ASSUME NEW t \in Threads, FopenFails(t) PROVE Streams'
  <2>1. Setting' = Setting
    BY <1>5, AfterFopenFails DEF Setting
  <2> QED
    BY <1>5, <2>1, AfterFopenFails DEF Streams
<1>6. ASSUME NEW t \in Threads, SetFile(t) PROVE Streams'
  BY <1>6, AfterSetFile DEF Streams
<1>7. ASSUME NEW t \in Threads, Write(t) PROVE Streams'
  <2>1. Setting' = Setting
    BY <1>7, AfterWrite DEF Setting
  <2> QED
    BY <1>7, <2>1, AfterWrite DEF Streams
<1>8. CASE Midnight
  BY <1>8 DEF Midnight, logger, Streams, Setting
<1>9. CASE Restart
  <2>1. Setting' = {}
    BY <1>9, AfterRestart DEF Setting
  <2> QED
    BY <1>9, <2>1, AfterRestart, FS_EmptySet DEF Streams
<1>10. CASE UNCHANGED core
  BY <1>10 DEF core, logger, Streams, Setting
<1> QED
  BY <1>1, <1>2, <1>3, <1>4, <1>5, <1>6, <1>7, <1>8, <1>9, <1>10, StepCases, Zenon

(* So what fopen empties held nothing. *)
LEMMA NothingLostKept ==
    ASSUME Typed, Alone, Kept, NothingLost, [Next]_vars
    PROVE  NothingLost'
<1> USE FilesAre
<1>1. ASSUME NEW t \in Threads, NEW level, log_print(t, level) PROVE NothingLost'
  BY <1>1, AfterPrint DEF Typed, Alone, Kept, ByUser, NothingLost
<1>2. ASSUME NEW t \in Threads, NEW f \in UserFiles, log_file(t,
f) PROVE NothingLost'
  BY <1>2, AfterLogFile DEF Typed, Alone, Kept, ByUser, NothingLost
<1>3. ASSUME NEW t \in Threads, Check(t) PROVE NothingLost'
  BY <1>3, AfterCheck DEF Typed, Alone, Kept, ByUser, NothingLost
<1>4. ASSUME NEW t \in Threads, Fopen(t) PROVE NothingLost'
  BY <1>4, AfterFopen DEF Typed, Alone, Kept, ByUser, NothingLost
<1>5. ASSUME NEW t \in Threads, FopenFails(t) PROVE NothingLost'
  BY <1>5, AfterFopenFails DEF Typed, Alone, Kept, ByUser, NothingLost
<1>6. ASSUME NEW t \in Threads, SetFile(t) PROVE NothingLost'
  BY <1>6, AfterSetFile DEF Typed, Alone, Kept, ByUser, NothingLost
<1>7. ASSUME NEW t \in Threads, Write(t) PROVE NothingLost'
  BY <1>7, AfterWrite DEF Typed, Histories, NothingLost
<1>8. CASE Midnight
  BY <1>8 DEF Midnight, NothingLost
<1>9. CASE Restart
  BY <1>9, AfterRestart DEF Typed, Alone, Kept, ByUser, NothingLost
<1>10. CASE UNCHANGED core
  BY <1>10 DEF core, NothingLost
<1> QED
  BY <1>1, <1>2, <1>3, <1>4, <1>5, <1>6, <1>7, <1>8, <1>9, <1>10, StepCases, Zenon

----------------------------------------------------------------------------
(* The theorems *)

LEMMA Starts == Init => IInv
<1> SUFFICES ASSUME Init PROVE IInv
  OBVIOUS
<1>1. Idle \in Callers /\ Idle.at = "idle"
  BY DEF Idle, Callers
<1>2. th = [t \in Threads |-> Idle]
  BY DEF Init, Resting
<1>3. /\ Unbroken \in Histories /\ \A f \in Files : Unbroken.owed[f] = 0
      /\ Unbroken.choice = 0
  BY DEF Unbroken, Histories
<1>4. \A t \in Threads : ~Opening(th[t]) /\ ~AtWork(t) /\ th[t].at = "idle"
  BY <1>1, <1>2 DEF Opening, AtWork, DayOpening
<1>5. Typed
  <2>1. th \in [Threads -> Callers] /\ hist \in Histories
    BY <1>1, <1>2, <1>3 DEF Init
  <2>2. disk \in [Files -> Nat] /\ open \in Nat /\ alive \in BOOLEAN
    BY DEF Init
  <2>3. g_out_fp \in Files \cup {NULL} /\ day_value \in Nat /\ need_check \in BOOLEAN
    BY DEF Init
  <2>4. tm \in DayFiles /\ today \in DayFiles
    BY FilesAre DEF Init
  <2>5. tm <= today
    BY DEF Init
  <2> QED
    BY <1>4, <2>1, <2>2, <2>3, <2>4, <2>5 DEF Typed
<1>8. Started /\ Alone /\ Dated
  BY <1>3, <1>4, FilesAre DEF Init, Started, Alone, Dated, DayOpening, Overlap
<1>9. Kept /\ Current /\ Choosing
  BY <1>3, <1>4, FilesAre DEF Init, Kept, Current, Choosing
<1>6. NothingLost
  BY <1>3 DEF Init, NothingLost
<1>7. Streams
  <2>1. Setting = {}
    BY <1>1, <1>2 DEF Setting
  <2> QED
    BY <2>1, FS_EmptySet DEF Init, Streams
<1> QED
  BY <1>5, <1>6, <1>7, <1>8, <1>9 DEF IInv

LEMMA Inductive == ASSUME IsFiniteSet(Threads) PROVE Spec => []IInv
<1>1. IInv /\ [Next]_vars => IInv'
  BY TypedKept, StartedKept, AloneKept, DatedKept, KeptKept, CurrentKept,
     ChoosingKept, StreamsKept, NothingLostKept DEF IInv
<1> QED
  BY Starts, <1>1, PTL DEF Spec

(* Unless threads race, log_write never opens, and so never empties, a     *)
(* file it has written to (lines 60-80): the days may repeat in any order, *)
(* files fail to open at any time and be chosen by the program.            *)
THEOREM MessagesAreKept ==
    ASSUME IsFiniteSet(Threads) PROVE Spec => []NothingLost
<1>1. IInv => NothingLost
  BY DEF IInv
<1> QED
  BY Inductive, <1>1, PTL

(* Unless threads race or a file could not be opened, a message is in the  *)
(* file of its day of the month (lines 60-80).                             *)
THEOREM MessagesOfTheDay ==
    ASSUME IsFiniteSet(Threads) PROVE Spec => []OwnDay
<1>1. IInv => OwnDay
  BY DEF IInv, Typed, Dated, Current, OwnDay
<1> QED
  BY Inductive, <1>1, PTL

(* Unless threads race, a file given to log_file after a message is used   *)
(* for the rest of the day (log.h:40).                                     *)
THEOREM ChoicesLast ==
    ASSUME IsFiniteSet(Threads) PROVE Spec => []ChoiceLasts
<1>1. IInv => ChoiceLasts
  <2> SUFFICES ASSUME IInv, NEW t \in Threads, th[t].at = "write", ~hist.raced,
                      th[t].day = hist.choice
               PROVE  g_out_fp \in UserFiles
    BY DEF ChoiceLasts
  <2>1. hist.choice # 0
    BY DEF IInv, Typed, AtWork
  <2> QED
    BY <2>1 DEF IInv, Choosing, Chosen, Passed, AtWork, Typed, Callers
<1> QED
  BY Inductive, <1>1, PTL

(* Whatever the threads do, fprintf is given NULL only in a process whose  *)
(* log_file has never succeeded (line 101).                                *)
THEOREM NullIsFirst ==
    ASSUME IsFiniteSet(Threads) PROVE Spec => []NullOnlyWithoutFile
<1>1. IInv => NullOnlyWithoutFile
  BY DEF IInv, Streams, Setting, NullOnlyWithoutFile
<1> QED
  BY Inductive, <1>1, PTL
============================================================================
