----------------------------- MODULE ModelLibrary -----------------------------
(***************************************************************************)
(* Ollama's models on disk and what the server says of them.  A model is a *)
(* manifest that names blobs, which it may share with others.  While       *)
(* Ollama pulls a model, whose progress a stream brings to the client, and *)
(* deletes another, "/models storage" and the two scans around a deletion  *)
(* read the directory in several steps (ollama/modelStorage.ts) and        *)
(* nothing keeps it from changing in between.  What a report lists as an   *)
(* orphan the client prints as a line "rm -rf ..." to copy.                *)
(*                                                                         *)
(* The sizes of the files of one scan are read in one step.  Which models  *)
(* the configuration names, asked after a deletion, is left out.           *)
(***************************************************************************)
EXTENDS Naturals, Sequences, FiniteSets

CONSTANTS
  Tags,
  BlobsOf,  \* the blobs a tag's manifest names
  BlobSize, \* in units of a partial file
  Layouts,  \* what resolveModelsDir may find at its candidates, in their order
  MaxPulls,
  MaxUnread \* lines of a pull the server has yet to read

AllBlobs == UNION {BlobsOf[t] : t \in Tags}
ASSUME LibraryAssumption == IsFiniteSet(AllBlobs) /\ \A b \in AllBlobs : BlobSize[b] \in Nat

VARIABLES
  layout,
  unreadable, \* tags whose manifests cannot be read or parsed
  installed,  \* tags with a manifest
  whole, partial,  \* blobs on disk, and those with a file "...-partial"
  pull,       \* the pull under way or the last one
  pulls,
  scan,       \* of each command: how far it has read the directory, and what
  deletion,   \* of the command that deletes
  stayed,     \* tags that were installed all through a scan
  quiet,      \* scans nothing changed under
  undisturbed \* only the deletion itself changed the directory since it began

libVars == <<layout, unreadable, installed, whole, partial, pull, pulls, scan, deletion, stayed,
             quiet, undisturbed>>
modelFiles == <<installed, whole, partial>>

ScanCommands == {"storage", "delete"}
NoScan == [step |-> "none", todo |-> {}, read |-> {}, whole |-> {}, partial |-> {}, bytes |-> 0]
Nowhere == "unavailable"

LibInit ==
  /\ layout \in Layouts
  /\ unreadable \in SUBSET Tags
  /\ installed \in SUBSET Tags
  /\ whole = UNION {BlobsOf[t] : t \in installed} /\ partial = {}
  /\ pull = [tag |-> CHOOSE t \in Tags : TRUE, ollama |-> "ended", made |-> FALSE,
             lines |-> <<>>, server |-> "ended", connected |-> TRUE, failed |-> FALSE,
             shown |-> "nothing"]
  /\ pulls = 0
  /\ scan = [c \in ScanCommands |-> NoScan]
  /\ deletion = [step |-> "idle", tag |-> pull.tag, before |-> 0, scans |-> FALSE, gone |-> 0,
                 freed |-> {}]
  /\ stayed = [c \in ScanCommands |-> {}]
  /\ quiet = [c \in ScanCommands |-> FALSE]
  /\ undisturbed = FALSE

Scanning(c) == scan[c].step \in {"manifests", "list", "sizes"}

(* What a step means for the scans under way.                              *)
Watched(begins) ==
  /\ stayed' = [c \in ScanCommands |->
                  IF c \in begins THEN installed'
                  ELSE IF Scanning(c) THEN stayed[c] \cap installed' ELSE stayed[c]]
  /\ quiet' = [c \in ScanCommands |->
                 IF c \in begins THEN TRUE
                 ELSE quiet[c] /\ (Scanning(c) => UNCHANGED modelFiles)]

-----------------------------------------------------------------------------
(* Ollama, and the stream that reads its lines.                            *)
StartPull(t) ==
  /\ pulls < MaxPulls /\ pull.server = "ended" /\ t \notin installed
  /\ pulls' = pulls + 1
  /\ pull' = [tag |-> t, ollama |-> "running", made |-> FALSE, lines |-> <<>>,
              server |-> "reading", connected |-> TRUE, failed |-> FALSE, shown |-> "nothing"]
  /\ UNCHANGED <<layout, unreadable, modelFiles, scan, deletion, undisturbed>>
  /\ Watched({})

PullLine(kind, ends, made) ==
  /\ pull.ollama = "running" /\ Len(pull.lines) < MaxUnread
  /\ pull' = [pull EXCEPT !.lines = Append(@, kind), !.ollama = IF ends THEN "ended" ELSE @,
                          !.made = made]
  /\ UNCHANGED <<layout, unreadable, pulls, scan, deletion>>

(* A blob is written to a partial file and then takes its name.            *)
FetchBlob(b) ==
  /\ b \in BlobsOf[pull.tag] \ whole
  /\ IF b \in partial THEN whole' = whole \cup {b} /\ partial' = partial \ {b}
     ELSE partial' = partial \cup {b} /\ UNCHANGED whole
  /\ UNCHANGED installed
  /\ PullLine("progress", FALSE, FALSE)
  /\ undisturbed' = FALSE /\ Watched({})

(* The manifest comes last.                                                *)
Install ==
  /\ BlobsOf[pull.tag] \subseteq whole
  /\ installed' = installed \cup {pull.tag} /\ UNCHANGED <<whole, partial>>
  /\ PullLine("success", TRUE, TRUE)
  /\ undisturbed' = FALSE /\ Watched({})

(* It fails with a line of its own and leaves its files.                   *)
PullFails ==
  /\ PullLine("error", TRUE, FALSE)
  /\ UNCHANGED <<modelFiles, undisturbed>> /\ Watched({})

(* The connection ends: the stream's signal, and the client's own failure. *)
ClientGone ==
  /\ pull.server = "reading" /\ pull.connected
  /\ pull' = [pull EXCEPT !.connected = FALSE, !.shown = "failure"]
  /\ UNCHANGED <<layout, unreadable, modelFiles, pulls, scan, deletion,
                 undisturbed>> /\ Watched({})

(* Mutant: a line is only progress, whatever it says.                      *)
AnyLine(p, line) == p

(* printProgress tells an error from progress.                             *)
Printed(p, line) == [p EXCEPT !.failed = @ \/ line = "error"]

(* createModelsPullStreamHandler looks at the signal once per line; its    *)
(* exception ends the reader and with that the pull.                       *)
ReadPullLine ==
  /\ pull.server = "reading" /\ pull.lines # <<>>
  /\ pull' = IF pull.connected
             THEN Printed([pull EXCEPT !.lines = Tail(@)], Head(pull.lines))
             ELSE [pull EXCEPT !.lines = <<>>, !.server = "ended", !.ollama = "ended"]
  /\ UNCHANGED <<layout, unreadable, modelFiles, pulls, scan, deletion,
                 undisturbed>> /\ Watched({})

(* "done" whatever the last line was.                                      *)
PullBodyEnds ==
  /\ pull.server = "reading" /\ pull.lines = <<>> /\ pull.ollama = "ended"
  /\ pull' = [pull EXCEPT !.server = "ended",
                          !.shown = IF ~pull.connected \/ pull.failed THEN "failure"
                                    ELSE "success"]
  /\ UNCHANGED <<layout, unreadable, modelFiles, pulls, scan, deletion,
                 undisturbed>> /\ Watched({})

-----------------------------------------------------------------------------
(* resolveModelsDir: the first candidate that is not missing decides; a    *)
(* remote Ollama has none.                                                 *)
DirectoryFound ==
  \E i \in DOMAIN layout :
    layout[i] = "directory" /\ \A j \in 1..(i - 1) : layout[j] = "missing"

(* The sum of their sizes: the units of all of them, counted.              *)
BytesOf(blobs) == Cardinality(UNION {{b} \X (1..BlobSize[b]) : b \in blobs})

(* scanModelStorage: all manifests there are, then each of them.           *)
WalkManifests(c) ==
  /\ scan' = [scan EXCEPT ![c] =
                IF DirectoryFound THEN [NoScan EXCEPT !.step = "manifests", !.todo = installed]
                ELSE [NoScan EXCEPT !.step = Nowhere]]
  /\ Watched({c})

(* Mutant: what cannot be read ends the reading.                           *)
StopAtFailure(c, t) ==
  IF t \in installed \ unreadable
  THEN [scan[c] EXCEPT !.todo = @ \ {t}, !.read = @ \cup {t}]
  ELSE [scan[c] EXCEPT !.todo = {}]

(* A manifest that is gone, or cannot be read, is skipped.                 *)
AfterManifest(c, t) ==
  [scan[c] EXCEPT !.todo = @ \ {t},
                  !.read = IF t \in installed \ unreadable THEN @ \cup {t} ELSE @]

ReadManifest(c) ==
  /\ scan[c].step = "manifests"
  /\ IF scan[c].todo = {}
     THEN scan' = [scan EXCEPT ![c].step = "list"]
     ELSE \E t \in scan[c].todo : scan' = [scan EXCEPT ![c] = AfterManifest(c, t)]
  /\ UNCHANGED <<layout, unreadable, modelFiles, pull, pulls, deletion,
                 undisturbed>> /\ Watched({})

ListBlobs(c) ==
  /\ scan[c].step = "list"
  /\ scan' = [scan EXCEPT ![c].step = "sizes", ![c].whole = whole, ![c].partial = partial]
  /\ UNCHANGED <<layout, unreadable, modelFiles, pull, pulls, deletion,
                 undisturbed>> /\ Watched({})

(* A file that is gone by now counts nothing but stays listed.             *)
StatBlobs(c) ==
  /\ scan[c].step = "sizes"
  /\ scan' = [scan EXCEPT ![c].step = "done",
                          ![c].bytes = BytesOf(scan[c].whole \cap whole) +
                                       Cardinality(scan[c].partial \cap partial)]
  /\ UNCHANGED <<layout, unreadable, modelFiles, pull, pulls, deletion,
                 undisturbed>> /\ Watched({})

(* Of a scan: what its rows and its list of orphans say.                   *)
Referenced(c) == UNION {BlobsOf[t] : t \in scan[c].read}
Orphans(c) == scan[c].whole \ Referenced(c)
UniqueTo(t, tags) == BlobsOf[t] \ UNION {BlobsOf[u] : u \in tags \ {t}}
Over(c) == scan[c].step \in {"done", Nowhere}

(* "/models storage", as often as one likes.                               *)
Storage ==
  /\ ~Scanning("storage")
  /\ UNCHANGED <<layout, unreadable, modelFiles, pull, pulls, deletion, undisturbed>>
  /\ WalkManifests("storage")

-----------------------------------------------------------------------------
(* createDeleteModelHandler: a scan, the deletion, a scan if the first one *)
(* could be made.                                                          *)
BeginDelete(t) ==
  /\ deletion.step = "idle"
  /\ deletion' = [deletion EXCEPT !.step = "before", !.tag = t]
  /\ undisturbed' = TRUE
  /\ UNCHANGED <<layout, unreadable, modelFiles, pull, pulls>>
  /\ WalkManifests("delete")

(* OllamaClient.deleteModel asks for the installed models first.           *)
CheckInstalled ==
  /\ deletion.step = "before" /\ Over("delete")
  /\ deletion' = [deletion EXCEPT !.step = IF deletion.tag \in installed THEN "request"
                                           ELSE "not_found",
                                  !.before = scan["delete"].bytes,
                                  !.scans = scan["delete"].step = "done"]
  /\ scan' = [scan EXCEPT !["delete"] = NoScan]
  /\ UNCHANGED <<layout, unreadable, modelFiles, pull, pulls, undisturbed>> /\ Watched({})

(* Ollama removes the manifest and the blobs no other one names; a model   *)
(* that is gone by now, or an Ollama that fails, fails the command.        *)
DeleteModel ==
  LET t == deletion.tag
      blobs == UniqueTo(t, installed)
  IN
  /\ deletion.step = "request" /\ t \in installed
  /\ installed' = installed \ {t} /\ whole' = whole \ blobs /\ UNCHANGED partial
  /\ deletion' = [deletion EXCEPT !.step = IF deletion.scans THEN "deleted" ELSE "answered",
                                  !.gone = BytesOf(blobs)]
  /\ UNCHANGED <<layout, unreadable, pull, pulls, scan, undisturbed>> /\ Watched({})

DeleteFails ==
  /\ deletion.step = "request"
  /\ deletion' = [deletion EXCEPT !.step = "failed"]
  /\ UNCHANGED <<layout, unreadable, modelFiles, pull, pulls, scan, undisturbed>> /\ Watched({})

ScanAgain ==
  /\ deletion.step = "deleted"
  /\ deletion' = [deletion EXCEPT !.step = "after"]
  /\ UNCHANGED <<layout, unreadable, modelFiles, pull, pulls, undisturbed>>
  /\ WalkManifests("delete")

(* Never less than nothing.                                                *)
Freed(before, after) == IF before > after THEN before - after ELSE 0

AnswerDelete ==
  /\ deletion.step = "after" /\ Over("delete")
  /\ deletion' = [deletion EXCEPT !.step = "answered",
                                  !.freed = {Freed(deletion.before, scan["delete"].bytes)}]
  /\ scan' = [scan EXCEPT !["delete"] = NoScan]
  /\ UNCHANGED <<layout, unreadable, modelFiles, pull, pulls, undisturbed>> /\ Watched({})

-----------------------------------------------------------------------------
PullStep ==
  (\E t \in Tags : \E b \in BlobsOf[t] : FetchBlob(b)) \/ Install \/ ReadPullLine \/ PullBodyEnds
ScanStep(c) == ReadManifest(c) \/ ListBlobs(c) \/ StatBlobs(c)
DeleteStep == CheckInstalled \/ DeleteModel \/ DeleteFails \/ ScanAgain \/ AnswerDelete

LibNext ==
  \/ \E t \in Tags : StartPull(t) \/ BeginDelete(t)
  \/ PullStep \/ PullFails \/ ClientGone
  \/ Storage \/ (\E c \in ScanCommands : ScanStep(c)) \/ DeleteStep

-----------------------------------------------------------------------------
(* No report tells the user to remove a blob of a model that was installed *)
(* all the time the directory was read and whose manifest can be read      *)
(* (printModelStorage prints "rm -rf" for every orphan).                   *)
OrphansUnused ==
  \A c \in ScanCommands, t \in Tags \ unreadable :
    scan[c].step \in {"sizes", "done"} /\ t \in stayed[c] => Orphans(c) \cap BlobsOf[t] = {}

(* If nothing changed meanwhile, a report whose manifests could be read is *)
(* exact: the orphans are the files no model uses, and what it calls       *)
(* unique to a model is what deleting it frees ("deleting frees nothing"). *)
QuietScanExact ==
  \A c \in ScanCommands :
    scan[c].step = "done" /\ quiet[c] /\ unreadable = {} =>
      /\ \A b \in scan[c].whole : b \in Orphans(c) <=> \A t \in stayed[c] : b \notin BlobsOf[t]
      /\ \A t \in stayed[c] :
           BytesOf(UniqueTo(t, scan[c].read)) = BytesOf(UniqueTo(t, stayed[c]))
      /\ scan[c].bytes = BytesOf(scan[c].whole) + Cardinality(scan[c].partial)

(* What "/models delete" says it freed is what went away, unless a pull    *)
(* was at work; shared blobs stay and do not count.                        *)
FreedIsReal ==
  deletion.step = "answered" /\ undisturbed =>
    deletion.freed \subseteq {deletion.gone}

(* "Model pulled successfully" is printed of nothing but a pull that wrote *)
(* its manifest, though "done" follows an error line as well.              *)
SuccessIsInstalled == pull.shown = "success" => pull.made

LibraryInv == OrphansUnused /\ QuietScanExact /\ SuccessIsInstalled

LibFairness == WF_libVars(PullStep \/ ScanStep("delete") \/ DeleteStep)

(* A deletion is answered and a pull ends, as long as Ollama goes on.      *)
LibraryOver ==
  /\ pull.server = "ended"
  /\ deletion.step \in {"idle", "answered", "not_found", "failed"}
LibraryEnds == <>[]LibraryOver
=============================================================================
