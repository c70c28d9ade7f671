------------------------------ MODULE Logging -------------------------------
(***************************************************************************)
(* The records that l2_rk3566/src/logging keeps: event_logger.c and its    *)
(* files, the ring of trace_buffer.c, the reports of crash_dump.c and the  *)
(* table of perf_profiler.c.  They share no state.  What is written is     *)
(* abstracted to a number, in the order in which it came to be.            *)
(***************************************************************************)
EXTENDS Integers, FiniteSets, SequencesExt

CONSTANTS
  EVENTS_MAX_FILES, FileCap,          \* EVENTS_MAX_FILE_SIZE, in events
  MaxSeen,                            \* entries of the directory that a rotation takes
  MaxOpens, MaxClock,                 \* bounds: files opened, and rotations that did
                                      \* not see all of them; seconds
  TRACE_BUFFER_SIZE, MaxPushes,       \* bound: traced events
  MaxCrashes,                         \* bound: faults of the M4
  Task, PERF_MAX_TASKS, MaxTime       \* bound: time between two flushes

LoggingAssumption ==
  /\ {EVENTS_MAX_FILES, FileCap, MaxSeen, MaxOpens, MaxClock, TRACE_BUFFER_SIZE,
      MaxPushes, MaxCrashes, PERF_MAX_TASKS, MaxTime} \subseteq Nat \ {0}
  /\ IsFiniteSet(Task)

VARIABLES
  files,               \* the files of the directory: number -> mtime
  current, size,       \* current_file, 0 if NULL; current_file_size, in events
  opens, clock,
  extra,               \* history: closes, failures and rotations that did not see
                       \* every file, since the last one that did
  ring, write_index, event_count, pushed,   \* trace_buffer.c; history: what was pushed
  ctx, saved,          \* the context in SRAM3, and the one in the file that is read
                       \* without it: number of the fault, 0 if not valid
  apc, read,           \* crash_dump_analyse: where it is, and what it has read
  crashes, logged, unwritten, missed,
    \* faults so far; those in crash.log; history: those whose report was lost in
    \* a write that failed, and those whose context was overwritten or cleared
    \* without having been read
  table, runtime, uptime, running, ran
    \* tasks, total_runtime_us, total_uptime_us, current_task_idx ("" if -1) and
    \* the time since current_switch_in_us

eventvars == <<files, current, size, opens, clock, extra>>
tracevars == <<ring, write_index, event_count, pushed>>
crashvars == <<ctx, saved, apc, read, crashes, logged, unwritten, missed>>
perfvars  == <<table, runtime, uptime, running, ran>>
vars      == <<eventvars, tracevars, crashvars, perfvars>>

-----------------------------------------------------------------------------
(* event_logger.c.                                                         *)
EventInit == /\ files = <<>> /\ current = 0 /\ size = 0 /\ opens = 0 /\ clock = 0
             /\ extra = 0

(* Mutant: one file too many is kept.                                      *)
ToDelete_m(seen) == Cardinality(seen) - EVENTS_MAX_FILES - 1
ToDelete(seen) == Cardinality(seen) - EVENTS_MAX_FILES

(* The entries that rotate_logs takes, in the order of the directory: all  *)
(* of them, as many as its table has room for, or none if the directory    *)
(* cannot be opened.                                                       *)
Taken(fs) ==
  {{}} \cup {seen \in SUBSET DOMAIN fs :
             \/ Cardinality(seen) = MaxSeen
             \/ seen = DOMAIN fs /\ Cardinality(seen) < MaxSeen}

(* Of these the ones last written to are kept; of one second, any.         *)
Kept(fs, seen, kept) ==
  /\ DOMAIN fs \ seen \subseteq kept
  /\ Cardinality(DOMAIN fs \ kept) = IF ToDelete(seen) > 0 THEN ToDelete(seen) ELSE 0
  /\ \A f \in DOMAIN fs \ kept, g \in kept \cap seen : fs[f] <= fs[g]

rotate_logs(fs, kept) ==
  \E seen \in Taken(fs) :
    /\ Kept(fs, seen, kept)
    /\ \/ seen = DOMAIN fs /\ extra' = 0
       \/ seen # DOMAIN fs /\ extra < MaxOpens /\ extra' = extra + 1

(* open_new_file, under a name that no other file has.                     *)
Opened(fs) == [f \in DOMAIN fs \cup {opens + 1} |-> IF f = opens + 1 THEN clock ELSE fs[f]]

(* event_logger_init, at the start of the process or once more: the open   *)
(* file is then left open, and never written to again.                     *)
event_logger_init ==
  /\ opens < MaxOpens
  /\ \E kept \in SUBSET DOMAIN files :
       /\ rotate_logs(files, kept)
       /\ \/ /\ files' = Opened([f \in kept |-> files[f]]) /\ current' = opens + 1
             /\ opens' = opens + 1
          \/ files' = [f \in kept |-> files[f]] /\ current' = 0 /\ UNCHANGED opens
  /\ size' = 0 /\ UNCHANGED clock

(* write_json_line.  When there is no file it opens one first, and a       *)
(* failed write closes it again, without a rotation.                       *)
write_json_line ==
  LET file == IF current = 0 THEN opens + 1 ELSE current
      there == IF current = 0 THEN Opened(files) ELSE files
      n == IF current = 0 THEN 1 ELSE size + 1
      written == [there EXCEPT ![file] = clock]
  IN  /\ file <= MaxOpens /\ opens' = (IF current = 0 THEN file ELSE opens)
      /\ \/ /\ n < FileCap /\ size' = n /\ files' = written /\ current' = file
            /\ UNCHANGED extra
         \/ /\ n = FileCap /\ size' = n /\ current' = 0
            /\ \E kept \in SUBSET DOMAIN there :
                 rotate_logs(written, kept) /\ files' = [f \in kept |-> written[f]]
         \/ /\ files' = there /\ current' = 0 /\ size' = n - 1 /\ extra' = extra + 1
      /\ UNCHANGED clock

event_logger_close == /\ current # 0 /\ current' = 0 /\ extra' = extra + 1
                      /\ UNCHANGED <<files, size, opens, clock>>

Second == clock < MaxClock /\ clock' = clock + 1
          /\ UNCHANGED <<files, current, size, opens, extra>>

EventNext == /\ UNCHANGED <<tracevars, crashvars, perfvars>>
             /\ \/ event_logger_init \/ write_json_line \/ event_logger_close
                \/ Second

-----------------------------------------------------------------------------
(* trace_buffer.c.  The stamp of an event is taken before the lock, so the *)
(* order of the ring need not be that of the stamps.                       *)
TraceInit == /\ ring = [i \in 0..TRACE_BUFFER_SIZE - 1 |-> 0]
             /\ write_index = 0 /\ event_count = 0 /\ pushed = 0

(* Mutant: the index is not taken back to the first slot.                  *)
After_m(slot) == slot + 1
After(slot)   == (slot + 1) % TRACE_BUFFER_SIZE

trace_buffer_push ==
  /\ pushed < MaxPushes /\ pushed' = pushed + 1
  /\ ring' = [ring EXCEPT ![write_index] = pushed + 1]
  /\ write_index' = After(write_index)
  /\ event_count' = IF event_count < TRACE_BUFFER_SIZE THEN event_count + 1 ELSE event_count

trace_buffer_clear == /\ ring' = [i \in DOMAIN ring |-> 0]
                      /\ write_index' = 0 /\ event_count' = 0 /\ UNCHANGED pushed

Slots(from, n) == [i \in 1..n |-> ring[(from + i - 1) % TRACE_BUFFER_SIZE]]

(* Mutant: a full ring is written from its first slot.                     *)
Dumped_m == Slots(0, event_count)

(* trace_buffer_dump.                                                      *)
Dumped == IF event_count < TRACE_BUFFER_SIZE THEN Slots(0, event_count)
          ELSE Slots(write_index, TRACE_BUFFER_SIZE)

(* trace_buffer_print and trace_buffer_query test for a count that is      *)
(* never reached: a full ring is shown from its first slot.                *)
Shown == IF event_count > TRACE_BUFFER_SIZE THEN Slots(write_index, TRACE_BUFFER_SIZE)
         ELSE Slots(0, event_count)

TraceNext == /\ UNCHANGED <<eventvars, crashvars, perfvars>>
             /\ trace_buffer_push \/ trace_buffer_clear

-----------------------------------------------------------------------------
(* crash_dump.c.  The fault handler of the M4, which writes the context,   *)
(* and who copies it to the file are external.                             *)
CrashInit == /\ ctx = 0 /\ saved = 0 /\ apc = "idle" /\ read = 0 /\ crashes = 0
             /\ logged = {} /\ unwritten = {} /\ missed = {}

Valid(contexts) == contexts \ {0}

Crash == /\ crashes < MaxCrashes /\ crashes' = crashes + 1 /\ ctx' = crashes + 1
         /\ missed' = missed \cup Valid({ctx})
         /\ UNCHANGED <<saved, apc, read, logged, unwritten>>

Saved == /\ ctx # 0 /\ saved' = ctx
         /\ UNCHANGED <<ctx, apc, read, crashes, logged, unwritten, missed>>

(* read_fault_context: the memory, or the file if the memory cannot be     *)
(* opened or has nothing.                                                  *)
ReadContext == /\ apc = "idle" /\ read' \in Valid({ctx, saved}) /\ apc' = "report"
               /\ UNCHANGED <<ctx, saved, crashes, logged, unwritten, missed>>

(* Mutant: the context is cleared although crash.log could not be opened.  *)
Unopened_m == "clear"
Unopened == "idle"

(* The results of fprintf and fclose are not looked at.                    *)
Report == /\ apc = "report"
          /\ \/ logged' = logged \cup {read} /\ apc' = "clear" /\ UNCHANGED unwritten
             \/ unwritten' = unwritten \cup {read} /\ apc' = "clear" /\ UNCHANGED logged
             \/ apc' = Unopened /\ UNCHANGED <<logged, unwritten>>
          /\ UNCHANGED <<ctx, saved, read, crashes, missed>>

(* clear_fault_context, whatever is there now, where it can be opened.     *)
Cleared == ctx' \in {0, ctx} /\ saved' \in {0, saved}

ClearContext ==
  /\ apc = "clear" /\ apc' = "idle" /\ Cleared
  /\ missed' = missed \cup (IF ctx' = ctx THEN {} ELSE {ctx} \ {read})
  /\ UNCHANGED <<read, crashes, logged, unwritten>>

crash_dump_clear ==
  /\ Cleared /\ missed' = missed \cup (IF ctx' = ctx THEN {} ELSE {ctx})
  /\ UNCHANGED <<apc, read, crashes, logged, unwritten>>

(* The process is killed in the middle.                                    *)
Killed == /\ apc # "idle" /\ apc' = "idle"
          /\ UNCHANGED <<ctx, saved, read, crashes, logged, unwritten, missed>>

CrashNext == /\ UNCHANGED <<eventvars, tracevars, perfvars>>
             /\ \/ Crash \/ Saved \/ ReadContext \/ Report \/ ClearContext
                \/ crash_dump_clear \/ Killed

-----------------------------------------------------------------------------
(* perf_profiler.c.                                                        *)
PerfInit == /\ table = {} /\ runtime = [t \in Task |-> 0] /\ uptime = 0
            /\ running = "" /\ ran = 0

(* perf_find_or_add_task: a full table adds nothing.                       *)
Added(t) == IF t \in table \/ Cardinality(table) < PERF_MAX_TASKS THEN table \cup {t}
            ELSE table

(* Mutant: the time of a task without an entry counts as well.             *)
Counted_m == ran
Counted == IF running = "" THEN 0 ELSE ran

perf_profiler_task_switch_in(t) ==
  /\ runtime' = IF running = "" THEN runtime ELSE [runtime EXCEPT ![running] = @ + ran]
  /\ uptime' = uptime + Counted
  /\ table' = Added(t) /\ running' = (IF t \in table' THEN t ELSE "") /\ ran' = 0

perf_profiler_stack_hwm(t) == table' = Added(t) /\ UNCHANGED <<runtime, uptime, running, ran>>

(* perf_profiler_flush: nothing is reset when the file cannot be opened;   *)
(* the task that runs takes its time into the next interval.               *)
perf_profiler_flush == /\ runtime' = [t \in Task |-> 0] /\ uptime' = 0
                       /\ UNCHANGED <<table, running, ran>>

PerfTick == /\ uptime + ran < MaxTime /\ ran' = ran + 1
            /\ UNCHANGED <<table, runtime, uptime, running>>

PerfNext ==
  /\ UNCHANGED <<eventvars, tracevars, crashvars>>
  /\ \/ \E t \in Task : perf_profiler_task_switch_in(t) \/ perf_profiler_stack_hwm(t)
     \/ perf_profiler_flush \/ PerfTick

-----------------------------------------------------------------------------
Init == EventInit /\ TraceInit /\ CrashInit /\ PerfInit
Next == EventNext \/ TraceNext \/ CrashNext \/ PerfNext
Spec == Init /\ [][Next]_vars

TypeOK ==
  /\ DOMAIN files \subseteq 1..MaxOpens /\ current \in 0..MaxOpens /\ size \in 0..FileCap
  /\ \A f \in DOMAIN files : files[f] \in 0..MaxClock
  /\ ring \in [0..TRACE_BUFFER_SIZE - 1 -> 0..MaxPushes]
  /\ write_index \in DOMAIN ring /\ event_count \in 0..TRACE_BUFFER_SIZE
  /\ {ctx, saved} \subseteq 0..MaxCrashes /\ apc \in {"idle", "report", "clear"}
  /\ logged \cup unwritten \cup missed \subseteq 1..MaxCrashes
  /\ table \subseteq Task /\ runtime \in [Task -> 0..MaxTime] /\ uptime \in 0..MaxTime
  /\ running \in Task \cup {""}

(* event_logger.c:13, "Keep last 10 files": a rotation that sees every     *)
(* file leaves that many, one more is being written, and one for every     *)
(* failed write or close since, and for every rotation that saw nothing or *)
(* not all of them; the file being written is still there.                 *)
FilesBounded ==
  /\ Cardinality(DOMAIN files) <= EVENTS_MAX_FILES + 1 + extra
  /\ current # 0 => current \in DOMAIN files

(* event_logger.c:127: "Rotate old log files: keep only the newest         *)
(* EVENTS_MAX_FILES": no file is deleted while an older one is kept.       *)
NewestAreKept ==
  [][\A f \in DOMAIN files \ DOMAIN files', g \in DOMAIN files' :
       files[f] <= files'[g]]_eventvars

(* trace_buffer.c:3: a dump holds the last events in their order, over     *)
(* wraps and clears, and what a query shows is the same events, although   *)
(* once the ring is full no longer in their order.                         *)
DumpIsLast ==
  /\ Dumped = [i \in 1..event_count |-> pushed - event_count + i]
  /\ ToSet(Shown) = ToSet(Dumped)

(* Every fault of the M4 is in crash.log or still to be read, over killed  *)
(* processes, a crash.log or contexts that cannot be opened, and reports   *)
(* from the file, unless its context was overwritten, or cleared without   *)
(* having been read, or its report was lost in a write that failed.        *)
CrashReported == (1..crashes) \ missed \subseteq logged \cup unwritten \cup {ctx}

(* crash_dump.c:361-366: it "writes a structured log entry" and returns 0  *)
(* "on success": what is about to be cleared is in crash.log.              *)
SuccessIsLogged == apc = "clear" => read \in logged

(* crash_dump.c:148: "Clear the crash context (mark as consumed)": the     *)
(* context that an analysis clears is the one it has read.                 *)
ConsumedIsRead == [][ctx' = 0 /\ ctx # 0 /\ apc = "clear" /\ apc' = "idle" => ctx = read]_crashvars

(* The times of the tasks add up to the time they are related to, so that  *)
(* no line of perf.csv shows more than 100 %, with a full table as well.   *)
TimesAddUp == FoldFunction(LAMBDA a, b : a + b, 0, runtime) = uptime

=============================================================================
