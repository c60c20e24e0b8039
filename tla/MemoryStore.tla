----------------------------- MODULE MemoryStore -----------------------------
(***************************************************************************)
(* The memory files, MEMORY.md and the vector cache as writers and prompt  *)
(* builds share them: the locked writers of packages/core/src/extract.ts   *)
(* (runExtractionSession) and packages/sdk/src/index.ts (save) with the    *)
(* tools of packages/core/src/file-tools.ts, the scan and the index of     *)
(* scan.ts and index-file.ts, and buildContext of recall.ts with the       *)
(* cache of recall-index.ts.                                               *)
(*                                                                         *)
(* Writers hold the root lock (RootLock), so there is one at a time.       *)
(* Prompt builds hold no lock, and they write MEMORY.md and the cache.     *)
(*                                                                         *)
(* A memory is a name, its index line and its mtime; mtimes number the     *)
(* writes.  All memories are of one type: each lies in the directory of    *)
(* that type or, before it is relocated, in the memory root.  Bodies are   *)
(* left out.  A walk reads the directory once and then one file per step.  *)
(*                                                                         *)
(* A search reads the index lines back with regular expressions, and what   *)
(* it takes for the path of a memory may be something else: a comma in the  *)
(* file name ends it, "(path: x" in a description comes before it.          *)
(***************************************************************************)
EXTENDS Integers, Sequences, FiniteSets, SequencesExt, FiniteSetsExt, Functions

CONSTANTS
  Names,       \* file names
  Lines,       \* what the frontmatter may make of an index line
  Torn,        \* the line of a file that a copy is overwriting
  NoFile,
  Prompts,     \* processes that build prompts, one at a time each
  MaxLines,    \* INDEX_MAX_LINES, also the default of retrieval.minRecords
  Limit,       \* retrieval.limit
  ScanCap,     \* MAX_SCAN_ENTRIES
  Scopes       \* configurations and bounds, see MemoryStoreAssumption

\* What a misread path may be: of nothing, of something that stays and is no memory,
\* one that resolveRelativePath refuses, or none, the line being no record.
Misread == {"absent", "present", "refused", "unparsed"}

\* mode: memoryIndexRetrieval of the processes, "unserved" being "required" without
\* a provider and "off" any that does not search; paths: what the parser of the index
\* reads as the path of each memory in each line; writes: by agents and by save; sessions:
\* writers that get the lock; crashes: writers that die; prompts: prompt builds.
ASSUME MemoryStoreAssumption ==
  /\ IsFiniteSet(Names)
  /\ Torn \notin Lines
  /\ NoFile \notin Lines \cup [line : Lines \cup {Torn}, mtime : Nat]
  /\ {MaxLines, Limit, ScanCap} \subseteq Nat \ {0}
  /\ Misread \cap Names = {}
  /\ Scopes \subseteq [mode : {"auto", "required", "unserved", "off"},
                        paths : [Names -> [Lines -> Names \cup Misread]],
                        writes : Nat, sessions : Nat, crashes : Nat, prompts : Nat]

VARIABLES
  typed,   \* the files in the type directory
  root,    \* the files in the memory root
  index,   \* the lines of MEMORY.md
  clock,   \* the mtime of the latest write
  cache,   \* memory-index.json, one entry for each path: the line that is there for the
           \* path and the line its vector was computed from
  writer,  \* the holder of the root lock
  prompt,  \* the prompt builds
  due,     \* the line written last of each memory that was not removed
  removed, \* memories that were ever removed from the type directory
  damaged, \* memories whose file a writer was overwriting when it died
  budget   \* one of Scopes, with what is left of the bounds

vars == <<typed, root, index, clock, cache, writer, prompt, due, removed, damaged, budget>>

\* r with the fields of s: what @@ of TLC does, which the provers do not know.
r ++ s == [f \in DOMAIN r \cup DOMAIN s |-> IF f \in DOMAIN r THEN r[f] ELSE s[f]]

File(line, mtime)  == [line |-> line, mtime |-> mtime]
Entry(n, f)        == [name |-> n, line |-> f.line, mtime |-> f.mtime]
Present(dir)       == {n \in Names : dir[n] # NoFile}
Readable(dir)      == {n \in Present(dir) : dir[n].line # Torn}
Entries(dir)       == {Entry(n, dir[n]) : n \in Readable(dir)}

\* scanMemoryFilesInternal: newest first.
NewestFirst(entries) ==
  CHOOSE s \in [1 .. Cardinality(entries) -> entries] :
    \A i, j \in DOMAIN s : i < j => s[i].mtime > s[j].mtime

\* scanMemoryFiles and truncateIndex: the first n.
Cap(s, n) == SubSeq(s, 1, Min({n, Len(s)}))

Free == [at |-> "free"]
Over(p) == prompt[p].at \in {"full", "picked", "threw"}
NoPrompt == [at |-> "none"]

\* What a running prompt build has seen of the type directory: kept only as long
\* as it overlaps no other one.
Watch(dir) ==
  prompt' = [p \in Prompts |->
    IF "seen" \in DOMAIN prompt[p] /\ prompt[p].alone /\ ~Over(p)
    THEN [prompt[p] EXCEPT !.seen = @ \cup Entries(dir), !.always = @ \cap Entries(dir)]
    ELSE prompt[p]]

Init ==
  /\ \E present \in SUBSET Names, lines \in [Names -> Lines],
        mtimes \in {m \in [Names -> 1 .. Cardinality(Names)] : IsInjective(m)} :
       /\ typed = [n \in Names |-> IF n \in present THEN File(lines[n], mtimes[n]) ELSE NoFile]
       /\ due = [n \in Names |-> IF n \in present THEN lines[n] ELSE NoFile]
  /\ root = [n \in Names |-> NoFile]
  /\ index \in {<<>>, NewestFirst(Entries(typed))}
  /\ clock = Cardinality(Names)
  /\ cache = {}
  /\ writer = Free
  /\ prompt = [p \in Prompts |-> NoPrompt]
  /\ removed = {}
  /\ damaged = {}
  /\ budget \in Scopes

(***************************************************************************)
(* Writers.                                                                *)
(***************************************************************************)

\* acquireLock(root, "extract").
ExtractBegin ==
  /\ writer = Free /\ budget.sessions > 0
  /\ writer' = [kind |-> "extract", at |-> "relocate", round |-> 1]
  /\ budget' = [budget EXCEPT !.sessions = @ - 1]
  /\ UNCHANGED <<typed, root, index, clock, cache, prompt, due, removed, damaged>>

\* relocateRootFiles, no file of that name in the type directory: rename.
RelocateFree(n) ==
  /\ writer.at = "relocate" /\ root[n] # NoFile
  /\ typed[n] = NoFile
  /\ typed' = [typed EXCEPT ![n] = root[n]]
  /\ root' = [root EXCEPT ![n] = NoFile]
  /\ Watch(typed')
  /\ UNCHANGED <<index, clock, cache, writer, due, removed, damaged, budget>>

\* Fault: the file in the root always loses.
RootIsNotNewer(n) == root[n] # NoFile /\ typed[n] # NoFile

RootIsOlder(n) ==
  root[n] # NoFile /\ typed[n] # NoFile /\ root[n].mtime < typed[n].mtime

\* The file in the type directory is newer: the one in the root is dropped.
RelocateOlder(n) ==
  /\ writer.at = "relocate" /\ RootIsOlder(n)
  /\ root' = [root EXCEPT ![n] = NoFile]
  /\ UNCHANGED <<typed, index, clock, cache, writer, prompt, due, removed, damaged, budget>>

\* copyFile overwrites the file in the type directory in place; then unlink.
RelocateCopy(n) ==
  /\ writer.at = "relocate"
  /\ root[n] # NoFile /\ typed[n] # NoFile /\ ~RootIsOlder(n)
  /\ clock' = clock + 1
  /\ typed' = [typed EXCEPT ![n] = File(Torn, clock + 1)]
  /\ writer' = [writer EXCEPT !.at = "copy"]
  /\ Watch(typed')
  /\ UNCHANGED <<root, index, cache, due, removed, damaged, budget>>

RelocateCopied(n) ==
  /\ writer.at = "copy" /\ root[n] # NoFile
  /\ typed[n] # NoFile /\ typed[n].mtime = clock
  /\ IF typed[n].line = Torn
     THEN /\ typed' = [typed EXCEPT ![n].line = root[n].line]
          /\ UNCHANGED <<root, writer>>
     ELSE /\ root' = [root EXCEPT ![n] = NoFile]
          /\ writer' = [writer EXCEPT !.at = "relocate"]
          /\ UNCHANGED typed
  /\ Watch(typed')
  /\ UNCHANGED <<index, clock, cache, due, removed, damaged, budget>>

Release(result) == [writer EXCEPT !.at = "release"] ++ [result |-> result]

\* The first relocation is done and the window is empty.
SelectNothing ==
  /\ writer.at = "relocate" /\ writer.round = 1 /\ Present(root) = {}
  /\ writer' = Release("skipped")
  /\ UNCHANGED <<typed, root, index, clock, cache, prompt, due, removed, damaged, budget>>

\* There is a window: the scan before the agent, then the agent.
SelectWindow ==
  /\ writer.at = "relocate" /\ writer.round = 1 /\ Present(root) = {}
  /\ writer' = [kind |-> "extract", at |-> "agent", since |-> clock,
                before |-> Cap(NewestFirst(Entries(typed)), ScanCap),
                crowded |-> Cardinality(Readable(typed)) > ScanCap]
  /\ UNCHANGED <<typed, root, index, clock, cache, prompt, due, removed, damaged, budget>>

\* What may be wrong with what an agent asks write or edit to store.
Requests ==
  [path : {"typed", "outside", "reserved", "untyped", "nested", "notMarkdown"},
   doc : {"valid", "noFrontmatter", "otherType", "badName", "badTerms", "emptyBody"}]

\* resolveUnderRoot, parseMemoryWritePath, the checks of writeByPolicy and of
\* writeMemoryDocument.
Accepted(request) == request.path = "typed" /\ request.doc = "valid"

\* writeMemoryDocument: an atomic write, which the scan of afterMutation follows.
Store(n, line) ==
  /\ budget.writes > 0
  /\ budget' = [budget EXCEPT !.writes = @ - 1]
  /\ clock' = clock + 1
  /\ typed' = [typed EXCEPT ![n] = File(line, clock + 1)]
  /\ due' = [due EXCEPT ![n] = line]
  /\ Watch(typed')

\* The write tool of the extraction agent.
AgentWrite(n, line, request) ==
  /\ writer.at = "agent" /\ Accepted(request)
  /\ Store(n, line)
  /\ writer' = [writer EXCEPT !.at = "sync"]
  /\ UNCHANGED <<root, index, cache, removed, damaged>>

\* Its edit tool: the file is read, the replacement is made, and the whole is
\* written under the rules of write.
AgentEdit(n, line, request) ==
  /\ writer.at = "agent" /\ Accepted(request)
  /\ n \in Readable(typed)
  /\ Store(n, line)
  /\ writer' = [writer EXCEPT !.at = "sync"]
  /\ UNCHANGED <<root, index, cache, removed, damaged>>

\* Its bash tool: whatever the command did stays done; only if the command
\* succeeds does afterMutation follow.
AfterCommand(succeeds) ==
  writer' = IF succeeds THEN [writer EXCEPT !.at = "sync"] ELSE writer

BashWrite(n, line, dir, succeeds) ==
  /\ writer.at = "agent" /\ budget.writes > 0
  /\ budget' = [budget EXCEPT !.writes = @ - 1]
  /\ clock' = clock + 1
  /\ IF dir = "typed"
     THEN typed' = [typed EXCEPT ![n] = File(line, clock + 1)] /\ UNCHANGED root
     ELSE root' = [root EXCEPT ![n] = File(line, clock + 1)] /\ UNCHANGED typed
  /\ due' = [due EXCEPT ![n] = line]
  /\ AfterCommand(succeeds)
  /\ Watch(typed')
  /\ UNCHANGED <<index, cache, removed, damaged>>

BashRemove(n, succeeds) ==
  /\ writer.at = "agent" /\ typed[n] # NoFile
  /\ typed' = [typed EXCEPT ![n] = NoFile]
  /\ due' = [due EXCEPT ![n] = IF root[n] = NoFile THEN NoFile ELSE root[n].line]
  /\ removed' = removed \cup {n}
  /\ AfterCommand(succeeds)
  /\ Watch(typed')
  /\ UNCHANGED <<root, index, clock, cache, damaged, budget>>

\* afterMutation: scan and rewrite MEMORY.md.
ToolSync ==
  /\ writer.at = "sync"
  /\ index' = NewestFirst(Entries(typed))
  /\ writer' = [writer EXCEPT !.at = "agent"]
  /\ UNCHANGED <<typed, root, clock, cache, prompt, due, removed, damaged, budget>>

\* The agent throws: nothing of the rest of the pass is done.
AgentThrows ==
  /\ writer.at = "agent"
  /\ writer' = Release("failed")
  /\ UNCHANGED <<typed, root, index, clock, cache, prompt, due, removed, damaged, budget>>

\* The agent is done: relocate what it wrote to the root.
AgentDone ==
  /\ writer.at = "agent"
  /\ writer' = [writer EXCEPT !.at = "relocate"] ++ [round |-> 2]
  /\ UNCHANGED <<typed, root, index, clock, cache, prompt, due, removed, damaged, budget>>

\* Fault: a memory that was there before does not count.
CountNew(before, after) ==
  Cardinality({e \in ToSet(after) : \A b \in ToSet(before) : b.name # e.name})

CountChanges(before, after) ==
  Cardinality({e \in ToSet(after) :
                 \A b \in ToSet(before) : b.name = e.name => e.mtime > b.mtime})

\* The scans of up to ScanCap memories tell whether the pass changed anything.
ExtractFinish ==
  /\ writer.at = "relocate" /\ writer.round = 2 /\ Present(root) = {}
  /\ index' = NewestFirst(Entries(typed))
  /\ writer' = Release(IF CountChanges(writer.before, Cap(index', ScanCap)) > 0
                       THEN "completed" ELSE "skipped")
  /\ UNCHANGED <<typed, root, clock, cache, prompt, due, removed, damaged, budget>>

\* save(options): archive first, then write.
SaveBegin(archives) ==
  /\ writer = Free /\ budget.sessions > 0
  /\ budget' = [budget EXCEPT !.sessions = @ - 1]
  /\ writer' = [kind |-> "save", at |-> "archive", archives |-> archives, changed |-> FALSE]
  /\ UNCHANGED <<typed, root, index, clock, cache, prompt, due, removed, damaged>>

\* archiveMemoryDocument: null for a file that does not exist.
SaveArchive(n) ==
  /\ writer.at = "archive" /\ n \in writer.archives
  /\ typed' = [typed EXCEPT ![n] = NoFile]
  /\ writer' = [writer EXCEPT !.archives = @ \ {n}, !.changed = @ \/ typed[n] # NoFile]
  /\ removed' = IF typed[n] # NoFile THEN removed \cup {n} ELSE removed
  /\ due' = [due EXCEPT ![n] = IF root[n] = NoFile THEN NoFile ELSE root[n].line]
  /\ Watch(typed')
  /\ UNCHANGED <<root, index, clock, cache, damaged, budget>>

SaveWrite(n, line, request) ==
  /\ writer.at = "archive" /\ writer.archives = {}
  /\ Accepted(request)
  /\ Store(n, line)
  /\ writer' = [kind |-> "save", at |-> "saved", changed |-> TRUE, wrote |-> Entry(n, typed'[n])]
  /\ UNCHANGED <<root, index, cache, removed, damaged>>

\* The write tool answers ok: false.
SaveRefused(request) ==
  /\ writer.at = "archive" /\ writer.archives = {}
  /\ ~Accepted(request)
  /\ writer' = [kind |-> "save", at |-> "saved", changed |-> writer.changed]
  /\ UNCHANGED <<typed, root, index, clock, cache, prompt, due, removed, damaged, budget>>

SaveSync ==
  /\ writer.at = "saved"
  /\ index' = NewestFirst(Entries(typed))
  /\ writer' = Release(IF writer.changed THEN "completed" ELSE "skipped")
  /\ UNCHANGED <<typed, root, clock, cache, prompt, due, removed, damaged, budget>>

Unlock ==
  /\ writer.at = "release"
  /\ writer' = Free
  /\ UNCHANGED <<typed, root, index, clock, cache, prompt, due, removed, damaged, budget>>

\* The process of the writer dies; its lock goes stale and is reclaimed.
WriterDies ==
  /\ writer # Free /\ budget.crashes > 0
  /\ budget' = [budget EXCEPT !.crashes = @ - 1]
  /\ damaged' = damaged \cup (Present(typed) \ Readable(typed))
  /\ writer' = Free
  /\ UNCHANGED <<typed, root, index, clock, cache, prompt, due, removed>>

(***************************************************************************)
(* Prompt builds: buildContext.                                            *)
(***************************************************************************)

\* at: scan -> read -> lookup -> store -> stat, or an answer on the way.
State(p, at) ==
  [at |-> at, alone |-> prompt[p].alone, seen |-> prompt[p].seen, always |-> prompt[p].always]

Searches == budget.mode \in {"auto", "required"}

PromptStart(p) ==
  /\ prompt[p] = NoPrompt /\ budget.prompts > 0
  /\ budget' = [budget EXCEPT !.prompts = @ - 1]
  /\ LET others == {q \in Prompts : prompt[q] # NoPrompt /\ ~Over(q)}
         known  == IF others = {} THEN Entries(typed) ELSE {}
     IN  prompt' = [q \in Prompts |->
           IF q = p THEN [at |-> "scan", todo |-> Present(typed), got |-> {},
                          seen |-> known, always |-> known, alone |-> others = {}]
           ELSE IF q \in others THEN [prompt[q] EXCEPT !.alone = FALSE, !.seen = {}, !.always = {}]
           ELSE prompt[q]]
  /\ UNCHANGED <<typed, root, index, clock, cache, writer, due, removed, damaged>>

\* walkMemoryFiles reads the next file; one that is gone or torn is skipped.
PromptScan(p, n) ==
  /\ prompt[p].at = "scan" /\ n \in prompt[p].todo
  /\ prompt' = [prompt EXCEPT ![p].todo = @ \ {n},
                              ![p].got = @ \cup {e \in Entries(typed) : e.name = n}]
  /\ UNCHANGED <<typed, root, index, clock, cache, writer, due, removed, damaged, budget>>

\* Fault: MEMORY.md is read before it is rebuilt.
PromptReadsFirst(p) ==
  /\ prompt[p].at = "scan" /\ prompt[p].todo = {}
  /\ prompt' = [prompt EXCEPT ![p] = State(p, "full") ++ [shown |-> Cap(index, MaxLines)]]
  /\ index' = NewestFirst(prompt[p].got)
  /\ UNCHANGED <<typed, root, clock, cache, writer, due, removed, damaged, budget>>

\* syncMemoryIndex with the entries of the walk, and without the lock.
PromptSync(p) ==
  /\ prompt[p].at = "scan" /\ prompt[p].todo = {}
  /\ index' = NewestFirst(prompt[p].got)
  /\ prompt' = [prompt EXCEPT ![p] = State(p, "read")]
  /\ UNCHANGED <<typed, root, clock, cache, writer, due, removed, damaged, budget>>

Answer(p, how, shown) == prompt' = [prompt EXCEPT ![p] = State(p, how) ++ [shown |-> shown]]
Fallback(p, lines)    == Answer(p, "full", Cap(lines, MaxLines))
Throw(p, selected)    == prompt' = [prompt EXCEPT ![p] = [at |-> "threw", selected |-> selected]]

\* parseMemoryIndexRecords: the path that is read in a line, and the lines that are
\* records.  Those that follow one with the same path replace it (Map).
Path(e)        == budget.paths[e.name][e.line]
Records(lines) == {e \in ToSet(lines) : Path(e) # "unparsed"}
Lasts(records) == {e \in records : \A f \in records : Path(f) = Path(e) => f.mtime >= e.mtime}

\* readMemoryIndex, whoever wrote MEMORY.md last.  Without retrieval, without a
\* query, or if there are few records, it is the answer.
PromptFull(p, query) ==
  /\ prompt[p].at = "read"
  /\ \/ budget.mode = "off" \/ ~query
     \/ Searches /\ Cardinality(Records(index)) <= MaxLines
  /\ Fallback(p, index)
  /\ UNCHANGED <<typed, root, index, clock, cache, writer, due, removed, damaged, budget>>

\* "required" without a provider.
PromptUnserved(p) ==
  /\ prompt[p].at = "read" /\ budget.mode = "unserved"
  /\ Throw(p, {})
  /\ UNCHANGED <<typed, root, index, clock, cache, writer, due, removed, damaged, budget>>

\* There are too many records: they are searched.
PromptRecords(p) ==
  /\ prompt[p].at = "read" /\ Searches /\ Cardinality(Records(index)) > MaxLines
  /\ prompt' = [prompt EXCEPT ![p] = State(p, "lookup") ++ [lines |-> index]]
  /\ UNCHANGED <<typed, root, index, clock, cache, writer, due, removed, damaged, budget>>

\* Fault: a vector is looked up by path only.
HitByPath(c, e) == Path(c) = Path(e)

\* The entry of the disk cache for the path of a record is of its line (lineHash).
Hit(c, e) == Path(c) = Path(e) /\ c.name = e.name /\ c.line = e.line

Cached(records)  == {c \in cache : \E e \in records : Hit(c, e)}
Missing(records) == {e \in records : \A c \in cache : ~Hit(c, e)}

\* readDiskCache; the provider embeds the records that are missing, and their vectors
\* replace what the cache has for their paths.
PromptLookup(p) ==
  /\ prompt[p].at = "lookup"
  /\ LET records == Records(prompt[p].lines)
         missing == Missing(records)
         cached  == {c \in Cached(records) : \A e \in missing : Path(e) # Path(c)}
     IN  prompt' = [prompt EXCEPT ![p] =
           State(p, "store") ++ [lines |-> @.lines,
             vectors |-> {[path |-> Path(c), of |-> c.of] : c \in cached}
                           \cup {[path |-> Path(e), of |-> e.line] : e \in Lasts(missing)}]]
  /\ UNCHANGED <<typed, root, index, clock, cache, writer, due, removed, damaged, budget>>

\* Fault: a failure of the provider is not caught.
GiveUpThrows(p) == Throw(p, {})

\* The catch of the search: the whole index after all, or an error.
GiveUp(p) ==
  IF budget.mode = "required" THEN Throw(p, {}) ELSE Fallback(p, prompt[p].lines)

\* The provider fails on the missing records.
EmbeddingFails(p) ==
  /\ prompt[p].at = "lookup" /\ Missing(Records(prompt[p].lines)) # {}
  /\ GiveUp(p)
  /\ UNCHANGED <<typed, root, index, clock, cache, writer, due, removed, damaged, budget>>

\* writeDiskCache replaces the whole cache.
StoreVectors(p) ==
  cache' = {[name |-> ev[1].name, line |-> ev[1].line, of |-> ev[2].of] :
              ev \in {x \in Lasts(Records(prompt[p].lines)) \X prompt[p].vectors :
                        x[2].path = Path(x[1])}}

\* hybridSearchMemoryIndex: the dense ranks order every path, so as many are
\* selected as may be; which ones depends on the query.
PromptSearch(p, selected) ==
  /\ prompt[p].at = "store"
  /\ StoreVectors(p)
  /\ selected \subseteq Lasts(Records(prompt[p].lines))
  /\ Cardinality(selected) = Min({Limit, Cardinality(Lasts(Records(prompt[p].lines)))})
  /\ prompt' = [prompt EXCEPT ![p] = State(p, "stat") ++
                  [selected |-> selected, todo |-> selected]]
  /\ UNCHANGED <<typed, root, index, clock, writer, due, removed, damaged, budget>>

\* The provider fails on the query.
QueryFails(p) ==
  /\ prompt[p].at = "store"
  /\ StoreVectors(p)
  /\ GiveUp(p)
  /\ UNCHANGED <<typed, root, index, clock, writer, due, removed, damaged, budget>>

\* resolveRelativePath and stat of a selected path: there is no such path, or nothing is
\* there.  They are outside the try and reject the build in any mode.
Fails(path) == path \in {"absent", "refused"} \/ (path \in Names /\ typed[path] = NoFile)

PromptStat(p) ==
  /\ prompt[p].at = "stat"
  /\ IF prompt[p].todo = {}
     THEN Answer(p, "picked", NewestFirst(prompt[p].selected))
     ELSE \E e \in prompt[p].todo :
            IF Fails(Path(e))
            THEN Throw(p, prompt[p].selected)
            ELSE prompt' = [prompt EXCEPT ![p].todo = @ \ {e}]
  /\ UNCHANGED <<typed, root, index, clock, cache, writer, due, removed, damaged, budget>>

\* The host has its answer.
PromptReturn(p) ==
  /\ prompt[p] # NoPrompt /\ Over(p)
  /\ prompt' = [prompt EXCEPT ![p] = NoPrompt]
  /\ UNCHANGED <<typed, root, index, clock, cache, writer, due, removed, damaged, budget>>

(***************************************************************************)
(* The specification.                                                      *)
(***************************************************************************)

WriterNext ==
  \/ ExtractBegin \/ SelectNothing \/ SelectWindow
  \/ \E n \in Names : RelocateFree(n) \/ RelocateOlder(n) \/ RelocateCopy(n) \/ RelocateCopied(n)
  \/ \E n \in Names, line \in Lines, request \in Requests :
       AgentWrite(n, line, request) \/ AgentEdit(n, line, request)
  \/ \E n \in Names, line \in Lines, dir \in {"typed", "root"}, ok \in BOOLEAN :
       BashWrite(n, line, dir, ok)
  \/ \E n \in Names, ok \in BOOLEAN : BashRemove(n, ok)
  \/ ToolSync \/ AgentThrows \/ AgentDone \/ ExtractFinish
  \/ \E archives \in SUBSET Names : SaveBegin(archives)
  \/ \E n \in Names : SaveArchive(n)
  \/ \E n \in Names, line \in Lines, request \in Requests : SaveWrite(n, line, request)
  \/ \E request \in Requests : SaveRefused(request)
  \/ SaveSync \/ Unlock \/ WriterDies

PromptNext ==
  \E p \in Prompts :
    \/ PromptStart(p) \/ (\E n \in Names : PromptScan(p, n)) \/ PromptSync(p)
    \/ (\E query \in BOOLEAN : PromptFull(p, query)) \/ PromptUnserved(p) \/ PromptRecords(p)
    \/ PromptLookup(p) \/ EmbeddingFails(p) \/ QueryFails(p)
    \/ \E selected \in SUBSET (IF prompt[p].at = "store" THEN ToSet(prompt[p].lines) ELSE {}) :
         PromptSearch(p, selected)
    \/ PromptStat(p) \/ PromptReturn(p)

Next == WriterNext \/ PromptNext

Spec == Init /\ [][Next]_vars

(***************************************************************************)
(* Properties.                                                             *)
(***************************************************************************)

\* The types; an index line is of a file that a walk could read, one of a name.
TypeOK ==
  LET entries == [name : Names, line : Lines, mtime : 1 .. clock]
  IN  /\ {typed, root} \subseteq
            [Names -> {NoFile} \cup [line : Lines \cup {Torn}, mtime : 1 .. clock]]
      /\ index \in Seq(entries)
      /\ \A i, j \in DOMAIN index : index[i].name = index[j].name => i = j
      /\ cache \subseteq [name : Names, line : Lines, of : Lines]
      /\ writer = Free \/ writer.kind \in {"extract", "save"}
      /\ \A p \in Prompts : prompt[p] # NoPrompt /\ ~Over(p) =>
            prompt[p].always \subseteq prompt[p].seen /\ prompt[p].seen \subseteq entries
      /\ due \in [Names -> Lines \cup {NoFile}]
      /\ removed \subseteq Names /\ damaged \subseteq Names

\* A prompt build that overlaps no other one shows what there is, whatever
\* MEMORY.md held before and whatever a writer does meanwhile: nothing that was
\* not there at some time of the call, and, unless retrieval selected, everything
\* that was there all the time, but for what is older than MaxLines others.
LonePromptIsExact ==
  \A p \in Prompts :
    prompt[p].at \in {"full", "picked"} /\ prompt[p].alone =>
      LET shown == ToSet(prompt[p].shown)
      IN  /\ shown \subseteq prompt[p].seen
          /\ prompt[p].at = "full" =>
               \A e \in prompt[p].always \ shown :
                 /\ Cardinality(shown) = MaxLines
                 /\ \A f \in shown : f.mtime > e.mtime

\* With retrieval in its default mode a prompt build fails only for a line it
\* selected: its file was removed, or the path that is read in the line is not its
\* own.  However prompts and writers overlap, however often the provider fails and
\* whatever MEMORY.md listed before, nothing else rejects it.
AutoThrowsOnlyForRemoved ==
  \A p \in Prompts :
    prompt[p].at = "threw" /\ budget.mode = "auto" =>
      \E e \in prompt[p].selected : e.name \in removed \/ Path(e) # e.name

\* No line of another memory is read as having this path.
Unshared(e) == \A n \in Names, line \in Lines : budget.paths[n][line] = Path(e) => n = e.name

\* Prompt builds replace each other's cache with the vectors of older or newer
\* lines, but a search has a vector for the path of each of its records, and only the
\* one of its line unless lines of two memories may be read as having that path.
VectorsAreOfTheirLines ==
  \A p \in Prompts :
    prompt[p].at = "store" =>
      \A e \in Records(prompt[p].lines) :
        LET vectors == {v \in prompt[p].vectors : v.path = Path(e)}
        IN  vectors # {} /\ (Unshared(e) => \A v \in vectors : v.of = e.line)

\* Whatever writers, relocations and crashes do, what was written last of a
\* memory is what its newest file holds, unless a writer died while it was
\* overwriting that file in place.
NewestIsKept ==
  /\ TypeOK
  /\ \A n \in Names \ damaged :
       LET copies == {f \in {typed[n], root[n]} : f # NoFile /\ f.line # Torn}
       IN  IF due[n] = NoFile THEN copies = {}
           ELSE /\ copies # {}
                /\ \A f \in copies : (\A g \in copies : f.mtime >= g.mtime) => f.line = due[n]

\* What a writer reports when it releases the lock is true.  A pass that wrote a
\* memory which is still there has completed; one that completed wrote one or
\* began with more memories than the scan lists; a save that completed has
\* stored its memory or, its write refused, has archived another.
ResultIsTrue ==
  writer.at = "release" =>
    /\ writer.kind = "extract" /\ writer.result # "failed" /\ "since" \in DOMAIN writer =>
         LET wrote == \E n \in Readable(typed) : typed[n].mtime > writer.since
         IN  /\ wrote => writer.result = "completed"
             /\ writer.result = "completed" => wrote \/ writer.crowded
    /\ writer.kind = "save" =>
         (writer.result = "completed" <=>
            IF "wrote" \in DOMAIN writer THEN writer.wrote \in Entries(typed) ELSE writer.changed)
==============================================================================
