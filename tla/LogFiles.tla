------------------------------ MODULE LogFiles ------------------------------
(***************************************************************************)
(* libCommon/logging.cpp, the files behind the log: which file is open,    *)
(* when a new one is begun, and which old ones are removed.  The calls run *)
(* one at a time; what SIGUSR1 does between two steps of the writer is in  *)
(* AsyncLogger.                                                            *)
(*                                                                         *)
(* A file is a number, in the order of the names: the log of each day is   *)
(* one of 1 .. Days (name.YYYY-MM-DD), Stray is another name the log's name*)
(* is part of, 0 a file of the directory that has nothing to do with it.   *)
(* The directory is the one the program runs in, and the log's name is     *)
(* given without it or with it ("./name"), in the same way every time.     *)
(* g_log_set holds what was found as "./name" and what was opened as it    *)
(* was named: a file may stand there twice.  Sizes are scaled; a limit of  *)
(* size is in the same unit (1 << 20).                                     *)
(***************************************************************************)
EXTENDS Integers, FiniteSets, FiniteSetsExt, Sequences

CONSTANTS
  Days,
  Limits,       (* what the setters are called with                         *)
  Lengths,      (* lengths of messages                                      *)
  LargeBuffer,  (* bufsize of Logv's second try                             *)
  MaxCalls,     (* bound: calls of setters                                  *)
  MaxLines      (* bound: lines logged                                      *)

ASSUME FilesAssumption ==
  /\ Days \in Nat /\ Days >= 2
  /\ Limits \subseteq Nat /\ Lengths \subseteq Nat /\ LargeBuffer \in Nat \ {0}

Stray == Days + 1
Names == 0 .. Stray

(* The members of g_log_set, in the order of strings: file f as "./name",  *)
(* and, above all of those, file f without the directory.                  *)
Paths == 0 .. 2 * Stray + 1
Bare(f) == f + Stray + 1
File(e) == IF e > Stray THEN e - Stray - 1 ELSE e

VARIABLES
  disk,         (* size of each regular file; -1: there is none             *)
  day,          (* today                                                    *)
  named,        (* g_log_file_name: none, bare or "./"                      *)
  config,       (* g_log_level, g_log_size, g_log_count, g_total_size_limit *)
  logFile,      (* what g_log_fd is: a file, its offset, append or not      *)
  link,         (* what the symbolic link g_log_file_name points to         *)
  g_log_set, current_total_size,
  size_,        (* of AsyncLogger                                           *)
  g_warning_fd, (* descriptor 0, whatever that is, until it is set          *)
  stuck,        (* RecoverHistory has found nothing left to remove          *)
  calls, lines, (* history: calls of setters, lines logged                  *)
  unnamed,      (* history: a limit was set before the name was             *)
  twice,        (* history: a file stood in g_log_set twice                 *)
  elsewhere     (* history: somebody else removed a file                    *)

opened  == <<logFile, link>>
sizes   == <<g_log_set, current_total_size, size_>>
settings == <<named, config, g_warning_fd>>
logVars == <<disk, day, opened, sizes, settings, stuck, calls, lines, unnamed, twice, elsewhere>>

Stdout == [name |-> -1, offset |-> 0, append |-> FALSE]
Levels == [DEBUG |-> 2, INFO |-> 4, WARN |-> 8, ERROR |-> 16, FATAL |-> 32]

(* Any logs of earlier days may be there, and other files.                 *)
LogInit ==
  /\ day = 2
  /\ disk \in [Names -> {-1, 1}] /\ disk[0] = 1 /\ \A d \in 3 .. Days : disk[d] = -1
  /\ named = "none"
  /\ config = [level |-> Levels.INFO, size |-> 0, count |-> 0, limit |-> 0]
  /\ logFile = Stdout /\ link = -1
  /\ g_log_set = {} /\ current_total_size = 0 /\ size_ = 0
  /\ g_warning_fd = "zero" /\ stuck = FALSE
  /\ calls = 0 /\ lines = 0 /\ unnamed = FALSE
  /\ twice = FALSE /\ elsewhere = FALSE

-----------------------------------------------------------------------------
(* The loop that removes files while there are too many or they are too    *)
(* big, in the order of their names.  It ends when a file is gone already, *)
(* and GetNewLog's when no name is left: RecoverHistory's then goes round  *)
(* for ever.  What it removes are the first n files, for the least n after *)
(* which it ends.                                                          *)

Kept(files, set, total) == [disk |-> files, set |-> set, total |-> total]

TooMuch(k) == \/ config'.count > 0 /\ Cardinality(k.set) > config'.count
              \/ config'.limit > 0 /\ k.total > config'.limit

SizeOf(files, set) == LET Size(e) == files[File(e)] IN MapThenSumSet(Size, set)

Foremost(place, n, set) == {e \in set : Cardinality({g \in set : place[g] < place[e]}) < n}

Without(k, removed) ==
  Kept([f \in Names |-> IF removed \cap {f, Bare(f)} # {} THEN -1 ELSE k.disk[f]],
       k.set \ removed, k.total - SizeOf(k.disk, removed))

LoopEnds(place, k) ==
  TooMuch(k) => \A e \in k.set : (\A g \in k.set : place[e] <= place[g]) => k.disk[File(e)] = -1

TrimmedBy(place, k) ==
  LET After(n) == Without(k, Foremost(place, n, k.set))
  IN  After(CHOOSE n \in 0 .. Cardinality(k.set) :
              LoopEnds(place, After(n)) /\ \A m \in 0 .. n - 1 : ~LoopEnds(place, After(m)))

TrimmedNewestFirst(k) == TrimmedBy([e \in Paths |-> -e], k)   \* deviation: rbegin() for begin()
Trimmed(k) == TrimmedBy([e \in Paths |-> e], k)

Keep(k) ==
  disk' = k.disk /\ g_log_set' = k.set /\ current_total_size' = k.total

Inserted(entries) ==
  twice' = (twice \/ \E f \in Names : {f, Bare(f)} \subseteq g_log_set \cup entries)

Begun(files) == [files EXCEPT ![day] = IF @ = -1 THEN 0 ELSE @]

(* GetNewLog: the day's file, from its start unless it is appended to.     *)
today == IF named' = "bare" THEN Bare(day) ELSE day

GetNewLog(append) ==
  /\ logFile' = [name |-> day, offset |-> 0, append |-> append] /\ link' = day
  /\ Keep(Trimmed(Kept(Begun(disk), g_log_set \cup {today}, current_total_size)))
  /\ Inserted({today})

(* Every regular file with the log's name in its own; without a name, all. *)
(* Whatever the log's name, each is "./" and the name found.               *)
History == {f \in Names : disk[f] # -1 /\ (named # "none" => f # 0)}

RecoverHistory ==
  LET k == Trimmed(Kept(disk, g_log_set \cup History,
                        current_total_size + SizeOf(disk, History)))
  IN  /\ Keep(k) /\ Inserted(History)
      /\ stuck' = (k.set = {} /\ TooMuch(k)) /\ unnamed' = (unnamed \/ named = "none")

-----------------------------------------------------------------------------
(* The calls.                                                              *)

Setting == ~stuck /\ calls < MaxCalls /\ calls' = calls + 1 /\ UNCHANGED <<day, size_, lines, elsewhere>>
Sets(new) == config' = new /\ UNCHANGED <<named, g_warning_fd>>
OpensNothing == UNCHANGED <<disk, opened, g_log_set, current_total_size, stuck, unnamed, twice>>
IsNamed == \E name \in {"bare", "./"} : named \in {"none", name} /\ named' = name

SetLogFile(append) ==
  /\ Setting /\ IsNamed /\ UNCHANGED <<config, g_warning_fd, stuck, unnamed>>
  /\ GetNewLog(append)

(* open() fails: only the name is set.                                     *)
SetLogFileFails == Setting /\ IsNamed /\ UNCHANGED <<config, g_warning_fd>> /\ OpensNothing

SetLogLevel(l) == Setting /\ Sets([config EXCEPT !.level = l]) /\ OpensNothing
SetLogSize(n)  == Setting /\ Sets([config EXCEPT !.size = n]) /\ OpensNothing

(* Refused when the other limit is set.                                    *)
SetLogCount(n) ==
  Setting /\ config.limit = 0 /\ Sets([config EXCEPT !.count = n]) /\ RecoverHistory /\ UNCHANGED opened
SetLogSizeLimit(n) ==
  Setting /\ config.count = 0 /\ Sets([config EXCEPT !.limit = n]) /\ RecoverHistory /\ UNCHANGED opened

(* Closes what g_warning_fd was.                                           *)
SetWarningFile == Setting /\ g_warning_fd' = "file" /\ UNCHANGED <<named, config>> /\ OpensNothing

Setter ==
  \/ \E append \in BOOLEAN : SetLogFile(append)
  \/ SetLogFileFails \/ SetWarningFile
  \/ \E l \in {Levels.DEBUG, Levels.ERROR} : SetLogLevel(l)
  \/ \E n \in Limits : SetLogSize(n) \/ SetLogCount(n) \/ SetLogSizeLimit(n)

-----------------------------------------------------------------------------
(* A line.                                                                 *)

(* Logv: what is longer than its second buffer is cut; then the newline.   *)
LineLength(message) == (IF message < LargeBuffer THEN message ELSE LargeBuffer - 1) + 1

Times(level) == IF g_warning_fd = "file" /\ level >= Levels.WARN THEN 2 ELSE 1

(* write() to g_log_fd, once more for a warning; a file that was removed   *)
(* takes the line as well, and nobody finds it.                            *)
Written(file, files, length) ==
  IF file = Stdout \/ files[file.name] = -1 THEN files
  ELSE [files EXCEPT ![file.name] =
          IF file.append THEN @ + length ELSE Max({@, file.offset + length})]

Advanced(file, length) ==
  IF file = Stdout \/ file.append
  THEN file ELSE [file EXCEPT !.offset = @ + length]

(* The writer's entry for it: a log that would get too long is begun anew, *)
(* which on the same day is the same file.                                 *)
Log(level, message) ==
  LET length == LineLength(message)
      bytes == Times(level) * length
  IN  /\ ~stuck /\ level >= config.level /\ UNCHANGED <<config, named>>
      /\ IF logFile # Stdout /\ config.size > 0 /\ size_ + length > config.size
         THEN /\ logFile' = Advanced([name |-> day, offset |-> 0, append |-> FALSE], bytes) /\ link' = day
              /\ Inserted({today})
              /\ LET k == Trimmed(Kept(Begun(disk), g_log_set \cup {today},
                                       current_total_size + size_ + length))
                 IN  Keep([k EXCEPT !.disk = Written([logFile' EXCEPT !.offset = 0], @, bytes)])
              /\ size_' = length
         ELSE /\ logFile' = Advanced(logFile, bytes)
              /\ disk' = Written(logFile, disk, bytes)
              /\ size_' = IF config.size > 0 THEN size_ + length ELSE size_
              /\ UNCHANGED <<link, g_log_set, current_total_size, twice>>
      /\ lines < MaxLines /\ lines' = lines + 1
      /\ UNCHANGED <<day, g_warning_fd, stuck, calls, unnamed, elsewhere>>

Tomorrow ==
  /\ day < Days /\ day' = day + 1
  /\ UNCHANGED <<disk, opened, sizes, settings, stuck, calls, lines, unnamed, twice, elsewhere>>

(* Somebody else tidies up.                                                *)
RemovedElsewhere ==
  /\ ~elsewhere /\ elsewhere' = TRUE
  /\ \E f \in Names \ {logFile.name} : disk[f] # -1 /\ disk' = [disk EXCEPT ![f] = -1]
  /\ UNCHANGED <<day, opened, sizes, settings, stuck, calls, lines, unnamed, twice>>

LogNext ==
  \/ Setter \/ Tomorrow \/ RemovedElsewhere
  \/ \E l \in {Levels.INFO, Levels.ERROR}, n \in Lengths : Log(l, n)

LogSpec == LogInit /\ [][LogNext]_logVars

-----------------------------------------------------------------------------
(* SetLogCount and SetLogSizeLimit remove old logs, the oldest first, and  *)
(* nothing else: no other file, as long as the log has its name by then,   *)
(* and not the log in use under a limit of their number, unless a file     *)
(* whose name goes on after the log's counts as a newer one.  With a log   *)
(* named without its directory, such a file counts as an older one, and    *)
(* all is lost once a file is in g_log_set under both its names            *)
(* (logging.cpp:50-51, 72, 239, 253, 268): it is counted twice, and its    *)
(* place is that of the name found, before every log opened since.         *)
OnlyOldLogsGo ==
  [][\A f \in Names : disk[f] # -1 /\ disk'[f] = -1 /\ elsewhere' = elsewhere =>
       /\ f = 0 => unnamed'
       /\ ~twice' =>
            /\ \A e \in g_log_set' : f < File(e) \/ (f = Stray /\ named' = "bare")
            /\ f = logFile'.name => config'.limit > 0 \/ Stray \in g_log_set \cup g_log_set']_logVars
=============================================================================
