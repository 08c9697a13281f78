------------------------------- MODULE Config -------------------------------
(***************************************************************************)
(* The process-wide configuration store, Config in                        *)
(* src/src/utils/config.cpp: m_properties (the file's key = value lines   *)
(* with the command-line overrides applied over them) and m_overrides,     *)
(* under the static mutex m_lock, reloaded periodically by a timer task    *)
(* while other threads read it.                                            *)
(*                                                                         *)
(* Every public method takes m_lock for its whole body and is one step.    *)
(* get_count_internal (the reader of http/tcp listener and responder       *)
(* counts) calls exists(), get_str() and get_int() one after the other,    *)
(* each under its own lock, and keeps the reference get_str() returns      *)
(* across the unlock: it is a reader thread whose steps interleave with    *)
(* reloads, set_value calls and edits of the config file.  The path       *)
(* getters get_data_dir, get_log_dir and get_log_file do the same: an      *)
(* exists() and a get_str() per candidate key, under separate locks.       *)
(*                                                                         *)
(* reload() clears the map, which frees every Property; a thread that      *)
(* holds a reference into one (freed) reads freed memory.  set_value_no_lock*)
(* changes an existing Property in place and frees none, but a thread      *)
(* reading that string without the lock races with the write (freed too). *)
(***************************************************************************)
EXTENDS Naturals, Sequences

CONSTANTS
    Keys,        \* configuration keys
    Vals,        \* values: "int" (a single count), "pair" ("a,b") or "half"
                 \* ("a,", a pair with its second count left out)
    Threads,     \* threads calling get_count_internal
    FileOk,      \* the readability states of the config file: {TRUE} or BOOLEAN
    MaxEdits,    \* bound: edits of the config file
    MaxSets,     \* bound: set_value calls
    NoProp,      \* no Property for the key (nullptr)
    DataDirKey,  \* tsdb.data.dir
    HomeKey,     \* ticktock.home
    LogFileKey   \* log.file

VARIABLES
    phase,       \* "startup" | "running" | "exited"
    props,       \* m_properties: key -> value
    overrides,   \* m_overrides
    file,        \* the config file, parsed: key -> value
    fileOk,      \* the config file can be opened
    pc,          \* step of get_count_internal per thread
    key,         \* the key it reads
    ref,         \* the key whose Property string get_str returned, or EMPTY
    todo,        \* the path candidates a get_*_dir/get_log_file call has left
    result,      \* the path the last such call returned
    freed,       \* the string ref points into was freed or rewritten since
    counters,    \* edits and set_value calls so far
    lastFailed,  \* ghost: the last reload failed to open the file
    reloaded,    \* ghost: a reload ran during the thread's read
    dangled      \* ghost: the thread read a freed or racing Property string

vars == <<phase, props, overrides, file, fileOk, pc, key, ref, todo, result, freed,
          counters, lastFailed, reloaded, dangled>>

Values == Vals \cup {NoProp}

\* get_str found no Property: EMPTY_STD_STRING
EMPTY == NoProp

Init ==
    /\ phase = "startup"
    /\ props = [k \in Keys |-> NoProp]
    /\ overrides = [k \in Keys |-> NoProp]
    /\ file \in [Keys -> Values]
    /\ fileOk \in FileOk
    /\ pc = [t \in Threads |-> "idle"]
    /\ key = [t \in Threads |-> NoProp]
    /\ ref = [t \in Threads |-> EMPTY]
    /\ todo = [t \in Threads |-> <<>>]
    /\ result = [t \in Threads |-> "none"]
    /\ freed = [t \in Threads |-> FALSE]
    /\ counters = [edits |-> 0, sets |-> 0]
    /\ lastFailed = FALSE
    /\ reloaded = [t \in Threads |-> FALSE]
    /\ dangled = [t \in Threads |-> FALSE]

-----------------------------------------------------------------------------
(* Startup *)

\* add_override(name, value): command-line options, before Config::init()
AddOverride(k, v) ==
    /\ phase = "startup"
    /\ overrides' = [overrides EXCEPT ![k] = v]
    /\ UNCHANGED <<phase, props, file, fileOk, pc, key, ref, todo, result, freed,
                   counters, lastFailed, reloaded, dangled>>

(***************************************************************************)
(* The body of reload(): clear(), then set_value_no_lock for every        *)
(* key = value line of the file, then for every override.  clear() frees  *)
(* every Property a reader holds a reference into.  If the file cannot be *)
(* opened the exception leaves the map cleared.                            *)
(***************************************************************************)
\* fault: the overrides are not applied again after clear()
ParsedFileOnly(f) == f

Parsed(f) == [k \in Keys |-> IF overrides[k] # NoProp THEN overrides[k] ELSE f[k]]

ReloadedProps == IF fileOk THEN Parsed(file) ELSE [k \in Keys |-> NoProp]

ReloadBody ==
    /\ props' = ReloadedProps
    /\ freed' = [t \in Threads |-> freed[t] \/ ref[t] # EMPTY]
    /\ lastFailed' = ~fileOk

\* Config::init(): the first reload; an exception ends the process
ConfigInit ==
    /\ phase = "startup"
    /\ ReloadBody
    /\ phase' = IF fileOk THEN "running" ELSE "exited"
    /\ UNCHANGED <<overrides, file, fileOk, pc, key, ref, todo, result, counters, reloaded,
                   dangled>>

(***************************************************************************)
(* The timer task reload(), every config.reload.frequency.  The exception *)
(* of a failed open is rethrown into the Timer (timer.cpp, not among the  *)
(* sources): the process either goes on with the cleared store or ends.   *)
(***************************************************************************)
\* a thread between two calls: idle, returned, or gone with an exception
Returned == {"idle", "done", "threw", "resolved"}

Reload ==
    /\ phase = "running"
    /\ ReloadBody
    /\ phase' \in IF fileOk THEN {"running"} ELSE {"running", "exited"}
    /\ reloaded' = [t \in Threads |-> reloaded[t] \/ pc[t] \notin Returned]
    /\ UNCHANGED <<overrides, file, fileOk, pc, key, ref, todo, result, counters, dangled>>

(***************************************************************************)
(* set_value(name, value): a new Property for a key without one, else the *)
(* existing Property is changed in place (Property::set_value assigns its *)
(* std::string); no Property is freed, but a thread holding a reference   *)
(* to that string now reads it unsynchronized with the write.             *)
(***************************************************************************)
SetValue(k, v) ==
    /\ phase = "running"
    /\ counters.sets < MaxSets
    /\ props' = [props EXCEPT ![k] = v]
    /\ freed' = [t \in Threads |-> freed[t] \/ ref[t] = k]
    /\ counters' = [counters EXCEPT !.sets = @ + 1]
    /\ UNCHANGED <<phase, overrides, file, fileOk, pc, key, ref, todo, result,
                   lastFailed, reloaded, dangled>>

\* An operator edits the config file, or it becomes unreadable, or readable.
EditFile(k, v, ok) ==
    /\ phase = "running"
    /\ counters.edits < MaxEdits
    /\ file' = [file EXCEPT ![k] = v]
    /\ fileOk' = ok
    /\ counters' = [counters EXCEPT !.edits = @ + 1]
    /\ UNCHANGED <<phase, props, overrides, pc, key, ref, todo, result, freed,
                   lastFailed, reloaded, dangled>>

-----------------------------------------------------------------------------
(* get_count_internal(name, def_value, which), one step per locked call *)

\* get_property(name), get_override(name): the map entry, or nullptr
GetProperty(k) == props[k]
GetOverride(k) == overrides[k]

\* exists(name): a Property or an override
Exists(k) == GetProperty(k) # NoProp \/ GetOverride(k) # NoProp

CountExists(t, k) ==
    /\ phase = "running" /\ pc[t] \in Returned \ {"threw"}
    /\ key' = [key EXCEPT ![t] = k]
    /\ reloaded' = [reloaded EXCEPT ![t] = FALSE]
    /\ pc' = [pc EXCEPT ![t] = IF Exists(k) THEN "get_str" ELSE "done"]
    /\ UNCHANGED <<phase, props, overrides, file, fileOk, ref, todo, result, freed,
                   counters, lastFailed, dangled>>

\* a thread inside get_data_dir, get_log_dir or get_log_file
Resolving(t) == todo[t] # <<>>

(***************************************************************************)
(* get_str(name): a reference to the Property's string, or to             *)
(* EMPTY_STD_STRING; get_count_internal tokenizes it next, a path getter  *)
(* copies it into the std::string it returns.                              *)
(***************************************************************************)
CountGetStr(t) ==
    /\ phase = "running" /\ pc[t] = "get_str"
    /\ ref' = [ref EXCEPT ![t] = IF GetProperty(key[t]) # NoProp THEN key[t] ELSE EMPTY]
    /\ freed' = [freed EXCEPT ![t] = FALSE]
    /\ pc' = [pc EXCEPT ![t] = IF Resolving(t) THEN "copy" ELSE "tokenize"]
    /\ UNCHANGED <<phase, props, overrides, file, fileOk, key, todo, result, counters,
                   lastFailed, reloaded, dangled>>

\* the referenced string was freed by a reload, or rewritten by set_value,
\* since get_str returned
Dangling(t) == ref[t] # EMPTY /\ freed[t]

\* what reading the string through the reference can give
ReadStr(t) ==
    IF Dangling(t) THEN Vals
    ELSE IF ref[t] = EMPTY THEN {"empty"} ELSE {props[ref[t]]}

(***************************************************************************)
(* tokenize(str_count, kv, ','), without the lock, splits a string with a *)
(* ',' into its two halves, and std::stoi parses the one which selects;   *)
(* stoi throws std::invalid_argument on the empty half of "a," (or of ",b",*)
(* the mirror case).  A string without ',' goes on to get_int(name).      *)
(***************************************************************************)
AfterTokenize(s, which) ==
    CASE s = "pair"                 -> "done"
      [] s = "half" /\ which = 0    -> "done"
      [] s = "half" /\ which = 1    -> "threw"
      [] OTHER                      -> "get_int"

(***************************************************************************)
(* Reading a freed or racing string is undefined: the bytes may hold any  *)
(* of the values.  which is the caller's argument, 0 or 1.                *)
(***************************************************************************)
CountTokenize(t) ==
    /\ phase = "running" /\ pc[t] = "tokenize"
    /\ \E s \in ReadStr(t), which \in {0, 1} :
         pc' = [pc EXCEPT ![t] = AfterTokenize(s, which)]
    /\ dangled' = [dangled EXCEPT ![t] = @ \/ Dangling(t)]
    /\ UNCHANGED <<phase, props, overrides, file, fileOk, key, ref, todo, result, freed,
                   counters, lastFailed, reloaded>>

\* get_int(name): throws std::exception when there is no Property
CountGetInt(t) ==
    /\ phase = "running" /\ pc[t] = "get_int"
    /\ pc' = [pc EXCEPT ![t] = IF GetProperty(key[t]) = NoProp THEN "threw" ELSE "done"]
    /\ UNCHANGED <<phase, props, overrides, file, fileOk, key, ref, todo, result, freed,
                   counters, lastFailed, reloaded, dangled>>

-----------------------------------------------------------------------------
(* get_data_dir(), get_log_dir(), get_log_file(): for each candidate key in *)
(* turn, if (exists(key)) return get_str(key) (+ a suffix, or its dirname), *)
(* else the next; the last fallback is g_working_dir.  Every call takes   *)
(* m_lock on its own.                                                      *)

\* a candidate: the key, and whether its dirname is taken (log.file)
Cand(k, dn) == [key |-> k, dirname |-> dn]

(***************************************************************************)
(* get_log_file checks log.file, then calls get_log_dir, which checks     *)
(* log.file again (taking its directory) and then ticktock.home.          *)
(***************************************************************************)
Candidates(call) ==
    CASE call = "data_dir" -> <<Cand(DataDirKey, FALSE), Cand(HomeKey, FALSE)>>
      [] call = "log_dir"  -> <<Cand(LogFileKey, TRUE), Cand(HomeKey, FALSE)>>
      [] call = "log_file" -> <<Cand(LogFileKey, FALSE), Cand(LogFileKey, TRUE),
                                Cand(HomeKey, FALSE)>>

PathCalls == {"data_dir", "log_dir", "log_file"}

ResolveStart(t, call) ==
    /\ phase = "running" /\ pc[t] \in Returned \ {"threw"}
    /\ todo' = [todo EXCEPT ![t] = Candidates(call)]
    /\ result' = [result EXCEPT ![t] = "none"]
    /\ reloaded' = [reloaded EXCEPT ![t] = FALSE]
    /\ pc' = [pc EXCEPT ![t] = "exists"]
    /\ UNCHANGED <<phase, props, overrides, file, fileOk, key, ref, freed, counters,
                   lastFailed, dangled>>

\* fault: get_str called without asking exists() first
DirExistsUnchecked(t) ==
    /\ phase = "running" /\ pc[t] = "exists"
    /\ key' = [key EXCEPT ![t] = Head(todo[t]).key]
    /\ pc' = [pc EXCEPT ![t] = "get_str"]
    /\ UNCHANGED <<phase, props, overrides, file, fileOk, ref, todo, result, freed,
                   counters, lastFailed, reloaded, dangled>>

\* exists(key) of the next candidate: get_str follows, or the next
\* candidate, or, after the last, g_working_dir (+ "/data" or "/log")
DirExists(t) ==
    LET k == Head(todo[t]).key IN
    /\ phase = "running" /\ pc[t] = "exists"
    /\ IF Exists(k)
         THEN /\ key' = [key EXCEPT ![t] = k]
              /\ pc' = [pc EXCEPT ![t] = "get_str"]
              /\ UNCHANGED <<todo, result>>
         ELSE IF Tail(todo[t]) # <<>>
         THEN /\ todo' = [todo EXCEPT ![t] = Tail(@)]
              /\ UNCHANGED <<pc, key, result>>
         ELSE /\ todo' = [todo EXCEPT ![t] = <<>>]
              /\ result' = [result EXCEPT ![t] = "default"]
              /\ pc' = [pc EXCEPT ![t] = "resolved"]
              /\ UNCHANGED key
    /\ UNCHANGED <<phase, props, overrides, file, fileOk, ref, freed, counters,
                   lastFailed, reloaded, dangled>>

(***************************************************************************)
(* The returned std::string is built from get_str's reference after the   *)
(* lock is released: a freed string reads undefined bytes.  An empty      *)
(* string is what the caller gets as the path, or "/data" or "/log" after *)
(* the home suffix; only log.file's find_last_of('/') turns it back into  *)
(* g_working_dir.                                                          *)
(***************************************************************************)
DirCopy(t) ==
    /\ phase = "running" /\ pc[t] = "copy"
    /\ \E s \in ReadStr(t) :
         result' = [result EXCEPT ![t] =
                      IF s # "empty" THEN "configured"
                      ELSE IF Head(todo[t]).dirname THEN "default" ELSE "lost"]
    /\ dangled' = [dangled EXCEPT ![t] = @ \/ Dangling(t)]
    /\ todo' = [todo EXCEPT ![t] = <<>>]
    /\ pc' = [pc EXCEPT ![t] = "resolved"]
    /\ UNCHANGED <<phase, props, overrides, file, fileOk, key, ref, freed, counters,
                   lastFailed, reloaded>>

Next ==
    \/ \E k \in Keys, v \in Vals : AddOverride(k, v)
    \/ ConfigInit
    \/ Reload
    \/ \E k \in Keys, v \in Vals : SetValue(k, v)
    \/ \E k \in Keys, v \in Values, ok \in FileOk : EditFile(k, v, ok)
    \/ \E t \in Threads, k \in Keys : CountExists(t, k)
    \/ \E t \in Threads : CountGetStr(t)
    \/ \E t \in Threads : CountTokenize(t)
    \/ \E t \in Threads : CountGetInt(t)
    \/ \E t \in Threads, call \in PathCalls : ResolveStart(t, call)
    \/ \E t \in Threads : DirExists(t)
    \/ \E t \in Threads : DirCopy(t)

Spec == Init /\ [][Next]_vars

\* With config.reload.enabled set, Config::init schedules the reload task
\* and the Timer runs it every config.reload.frequency seconds while the
\* process runs: it is weakly fair.  Without it nothing reloads after init.  Nothing obliges the readers,
\* set_value callers or the operator editing the file to act.
FairSpec == Spec /\ WF_vars(Reload)

-----------------------------------------------------------------------------
(* Properties *)

(***************************************************************************)
(* get_count_internal never throws for a key exists() reported, for the   *)
(* forms its comment lists ('6181,6162', '6181,', ',6182', '6182').       *)
(***************************************************************************)
CountReadNeverThrows == \A t \in Threads : pc[t] # "threw"

(***************************************************************************)
(* No thread reads a Property string after reload() freed it or while    *)
(* set_value rewrites it: the reference get_str() returns is used only    *)
(* while the Property lives and nobody writes it.                         *)
(***************************************************************************)
NoDanglingRead == \A t \in Threads : ~dangled[t]

(***************************************************************************)
(* Spec 6: command-line overrides take precedence and survive reloads:    *)
(* while the process runs, every override is the value of its key.        *)
(***************************************************************************)
OverridesSurviveReload ==
    phase = "running" => \A k \in Keys : overrides[k] # NoProp => props[k] = overrides[k]

(***************************************************************************)
(* get_data_dir, get_log_dir and get_log_file return a path built from an *)
(* empty string (data files in the working directory itself, or under     *)
(* "/data" at the root) only when a reload interferes: one ran between    *)
(* the exists() and the get_str() of the call, or the last reload failed  *)
(* and left the key behind as an override only.                           *)
(***************************************************************************)
PathLostOnlyOnReload ==
    \A t \in Threads : pc[t] = "resolved" /\ result[t] = "lost" => reloaded[t] \/ lastFailed

(***************************************************************************)
(* get_data_dir, get_log_dir and get_log_file never return a path built   *)
(* from the empty string get_str gives for a key exists() reported.       *)
(***************************************************************************)
PathNeverLost == \A t \in Threads : result[t] # "lost"

\* the file's values, with every override in their place
InForce ==
    \A k \in Keys : props[k] = IF overrides[k] # NoProp THEN overrides[k] ELSE file[k]

(***************************************************************************)
(* The timer brings a readable config file into force: whatever edits,    *)
(* set_value calls and failed reloads came before, while the process runs *)
(* and the file can be read, the store eventually holds the file's values *)
(* with the command-line overrides over them (spec 6).                     *)
(***************************************************************************)
FileEventuallyInForce ==
    (phase = "running" /\ fileOk) ~> (phase # "running" \/ ~fileOk \/ InForce)

=============================================================================
