----------------------------- MODULE LogbookReads ------------------------------
(***************************************************************************)
(* The read tools of the logbook (services/checkers_olog.py over the       *)
(* OlogClient): search_logbook with its cross-check of the levels,         *)
(* get_log_entry, list_log_attachments, the three listings of names, and   *)
(* the download of an attachment into a new file.                          *)
(*                                                                         *)
(* Olog answers a level it does not know with nothing and no error, and    *)
(* drops a filter in which it finds no term: what these tools promise is   *)
(* that neither is passed on as the truth.  A search may take two          *)
(* requests, between which the levels may change.                          *)
(***************************************************************************)
EXTENDS Integers, FiniteSets

CONSTANTS LevelFilters,   \* the parts of a level filter; NoFilter for none
          TitleFilters,   \* the characters of a title filter
          MaxHits,        \* entries that match
          PageSize,
          AttachMax,      \* olog_attach_max_bytes
          Base64Max       \* _BASE64_DOWNLOAD_MAX_BYTES

NoFilter == {"none"}
Names == {"Info", "Warnign"}
Flags == {"absent", "plain", "default", "odd"}
Listings == {"logbooks", "tags", "levels"}
Ops == {"search", "entry", "attachments", "download"} \union Listings
None == "none"
NoTotal == -1    \* the answer of a server that sends no count

VARIABLES
  op, args,
  configured,  \* EPICS_MCP_OLOG_URL is set
  levels,      \* the server's levels and which of them is the default
  past,        \* ghost: the levels since the call began
  hits,        \* the entries that match the search
  entry,       \* the entry asked for
  file,        \* what is at output_path
  stage,       \* "start", "get", "levels", "write" or "done"
  page,        \* what the search has returned
  outcome

vars == <<op, args, configured, levels, past, hits, entry, file, stage, page, outcome>>
inputs == <<op, args, configured>>

NoArgs == [level |-> NoFilter, title |-> NoFilter, window |-> "fine", offset |-> 0]
Searches ==
  [level : LevelFilters, title : {NoFilter}, window : {"fine"}, offset : {0, 1}]
  \union [level : {NoFilter}, title : TitleFilters, window : {"fine", "bad"}, offset : {0}]
Downloads ==
  [name : BOOLEAN, log : BOOLEAN, id : BOOLEAN, path : BOOLEAN, base64 : BOOLEAN]

NoPage == [count |-> 0, total |-> NoTotal, capped |-> FALSE]

Init ==
  /\ op \in Ops
  /\ args \in CASE op = "search" -> Searches
                [] op = "download" -> Downloads
                [] OTHER -> {NoArgs}
  /\ configured \in BOOLEAN
  /\ levels \in (IF op \in {"levels", "search"} THEN [Names -> Flags] ELSE {[n \in Names |-> "plain"]})
  /\ op = "search" => \A n \in Names : levels[n] \in {"absent", "plain"}
  /\ past = {levels}
  /\ hits \in (IF op = "search" THEN 0 .. MaxHits ELSE {0})
  /\ entry \in (IF op = "download" THEN 1 .. AttachMax + 1
                ELSE IF op \in {"entry", "attachments"} THEN {"whole", "gone"} ELSE {None})
  /\ file \in (IF op = "download" THEN {"none", "theirs"} ELSE {"none"})
  /\ stage = "start"
  /\ page = NoPage
  /\ outcome = [kind |-> None]

(* Someone edits the levels, or creates a file at the very path.           *)
Elsewhere ==
  /\ stage # "done"
  /\ \/ /\ op = "search" /\ Cardinality(past) = 1
        /\ levels' \in [Names -> {"absent", "plain"}] \ {levels}
        /\ past' = past \union {levels'}
        /\ UNCHANGED file
     \/ /\ op = "download" /\ file = "none"
        /\ file' = "theirs"
        /\ UNCHANGED <<levels, past>>
  /\ UNCHANGED <<inputs, hits, entry, stage, page, outcome>>

Finish(o) ==
  /\ outcome' = o
  /\ stage' = "done"

Err(code) == [kind |-> "error", code |-> code]
Configured == {n \in Names : levels[n] # "absent"}
-----------------------------------------------------------------------------
(* The parts a level is split into, of which "" is blank once Java has     *)
(* trimmed it; a part keeps a blank that Java does not trim.               *)
LevelBlank(l) == l = {""}
LevelParts(l) == l \ {""}

(* A title is split at more characters: the plus and the white space, for  *)
(* Python also that beyond ASCII.                                          *)
TitleBlank(t) == t \subseteq {",", " ", "+", "nbsp"}

BadDownload(a) ==
  \/ ~a.name /\ ~a.id
  \/ a.name /\ ~a.log
  \/ ~a.base64 /\ ~a.path
  \/ a.base64 /\ a.path

(* Refused before anything is sent: a download before the configuration is *)
(* looked at, a search after it.                                           *)
Start ==
  /\ stage = "start"
  /\ IF op = "download" /\ BadDownload(args) THEN Finish(Err("INVALID_INPUT"))
     ELSE IF ~configured THEN Finish([kind |-> "disabled"])
     ELSE IF op = "search" /\ (LevelBlank(args.level) \/ TitleBlank(args.title))
       THEN Finish(Err("INVALID_INPUT"))
     ELSE IF op = "search" /\ args.window = "bad" THEN Finish(Err("INVALID_TIME_WINDOW"))
     ELSE stage' = "get" /\ UNCHANGED outcome
  /\ UNCHANGED <<inputs, levels, past, hits, entry, file, page>>
-----------------------------------------------------------------------------
(* _get raised, or the payload is of another shape: an item without a      *)
(* name, an entry without an id, a hitCount that is no number.  A junk     *)
(* entry anywhere on the page is the end of the search.                    *)
OlogFailures == {"EPICS_CONNECTION_FAILED", "OLOG_HTTP", "OLOG_RESPONSE_ERROR"}
Failures == OlogFailures \union {"READ_RATE_LIMIT_EXCEEDED"}

Unreadable ==
  /\ stage = "get"
  /\ \E code \in Failures : Finish(Err(code))
  /\ UNCHANGED <<inputs, levels, past, hits, entry, file, page>>

Least(a, b) == IF a < b THEN a ELSE b

(* search_logbook: one more entry than the page; an older server sends no  *)
(* count.                                                                  *)
Page(total) ==
  LET fetched == Least(hits - Least(hits, args.offset), PageSize + 1)
  IN [count |-> Least(fetched, PageSize), total |-> total, capped |-> fetched > PageSize]

Silent == [kind |-> None]
Unverified == [kind |-> "unverified"]
Unknown(parts) == [kind |-> "unknown", parts |-> parts]
Found(p, note) == [kind |-> "entries", page |-> p, note |-> note]

(* Olog finds nothing for levels it does not know, unless an entry carries *)
(* just that; the answer that found nothing at all is looked into.         *)
Search ==
  /\ stage = "get" /\ op = "search"
  /\ \E total \in {hits, NoTotal} :
       /\ page' = Page(total)
       /\ IF args.level # NoFilter /\ Page(total).count = 0 /\ total \in {0, NoTotal}
            THEN stage' = "levels" /\ UNCHANGED outcome
            ELSE Finish(Found(Page(total), Silent))
  /\ UNCHANGED <<inputs, levels, past, hits, entry, file>>

Wildcards == {"Inf*"}
Fold(part) == IF part = "INFO" THEN "Info" ELSE part

(* Broken: Python's strip, which also takes what Java keeps.               *)
WideUnknownParts(l) ==
  {p \in LevelParts(l) \ Wildcards :
     (IF p = "nbsp Info" THEN "Info" ELSE Fold(p)) \notin Configured}

(* The parts that are no level; one with a wildcard is not judged.         *)
UnknownParts(l) == {p \in LevelParts(l) \ Wildcards : Fold(p) \notin Configured}

(* Broken: the levels are read again until they include all asked for.     *)
StubbornCrossCheck ==
  /\ stage = "levels" /\ UnknownParts(args.level) = {}
  /\ Finish(Found(page, Silent))
  /\ UNCHANGED <<inputs, levels, past, hits, entry, file, page>>

(* _unknown_level_note.                                                    *)
CrossCheck ==
  /\ stage = "levels"
  /\ \/ Finish(Found(page, IF UnknownParts(args.level) = {} THEN Silent
                           ELSE Unknown(UnknownParts(args.level))))
     \/ Finish(Found(page, Unverified))           \* an OlogError
     \/ Finish(Err("READ_RATE_LIMIT_EXCEEDED"))   \* not one
  /\ UNCHANGED <<inputs, levels, past, hits, entry, file, page>>

(* Only a 404 is a no; Olog may also answer 401 for it, which is an error. *)
Entry ==
  /\ stage = "get" /\ op \in {"entry", "attachments"}
  /\ \/ Finish([kind |-> "entry", found |-> entry = "whole"])
     \/ entry = "gone" /\ Finish(Err("OLOG_HTTP"))
  /\ UNCHANGED <<inputs, levels, past, hits, entry, file, page>>

(* _level_list: only one that is flagged alone among readable flags.       *)
Default(ls) ==
  LET flagged == {n \in Names : ls[n] = "default"}
  IN IF (\E n \in Names : ls[n] = "odd") \/ Cardinality(flagged) # 1
       THEN None ELSE CHOOSE n \in flagged : TRUE

List ==
  /\ stage = "get" /\ op \in Listings
  /\ Finish([kind |-> "names", names |-> Configured,
             default |-> IF op = "levels" THEN Default(levels) ELSE None])
  /\ UNCHANGED <<inputs, levels, past, hits, entry, file, page>>
-----------------------------------------------------------------------------
(* A download: the attachment comes in whole, under the cap of its sink.   *)
Cap == IF args.base64 THEN Least(AttachMax, Base64Max) ELSE AttachMax

Fetch ==
  /\ stage = "get" /\ op = "download"
  /\ IF entry > Cap THEN Finish(Err("OLOG_RESPONSE_ERROR"))
     ELSE IF args.base64 THEN Finish([kind |-> "downloaded", size |-> entry])
     ELSE stage' = "write" /\ UNCHANGED outcome
  /\ UNCHANGED <<inputs, levels, past, hits, entry, file, page>>

(* Broken: the file is opened to be written over.                          *)
OverwritingWrite ==
  /\ stage = "write"
  /\ file' = "ours" /\ Finish([kind |-> "downloaded", size |-> entry])
  /\ UNCHANGED <<inputs, levels, past, hits, entry, page>>

(* write_download: a path outside the roots, an exclusive creation, a disk *)
(* that is full halfway.                                                   *)
Write ==
  /\ stage = "write"
  /\ \/ /\ Finish(Err("INVALID_INPUT"))
        /\ UNCHANGED file
     \/ /\ file # "none"
        /\ Finish(Err("FILE_EXISTS"))
        /\ UNCHANGED file
     \/ /\ file = "none"
        /\ file' = "ours"
        /\ Finish([kind |-> "downloaded", size |-> entry])
     \/ /\ file = "none"
        /\ file' = "part"
        /\ Finish(Err("OSError"))
  /\ UNCHANGED <<inputs, levels, past, hits, entry, page>>

Steps == Start \/ Unreadable \/ Search \/ CrossCheck \/ Entry \/ List \/ Fetch \/ Write

Next == Elsewhere \/ Steps

Spec == Init /\ [][Next]_vars
-----------------------------------------------------------------------------
(* A filter that is sent has a term once Olog has split it, for its own    *)
(* separators, which do not include white space beyond ASCII.              *)
FilterApplied ==
  stage \notin {"start", "done"} /\ op = "search" =>
    /\ ~(args.level \subseteq {""})
    /\ ~(args.title \subseteq {",", " ", "+"})

(* A search by level that found nothing, and says nothing of it, was for   *)
(* levels that all exist, up to the wildcards; a note names only levels    *)
(* that did not.                                                           *)
EmptyExplained ==
  outcome.kind = "entries" /\ args.level # NoFilter =>
    LET judged == args.level \ ({""} \union Wildcards)
        Lacks(p, ls) == IF p = "INFO" THEN ls["Info"] = "absent"
                        ELSE IF p \in Names THEN ls[p] = "absent" ELSE TRUE
    IN /\ outcome.page.count = 0 /\ outcome.page.total \in {0, NoTotal} /\ outcome.note = Silent =>
            \E ls \in past : \A p \in judged : ~Lacks(p, ls)
       /\ outcome.note.kind = "unknown" =>
            \E ls \in past : \A p \in outcome.note.parts : Lacks(p, ls)

(* A page that is not capped is all there is from its offset on; one that  *)
(* is has a successor.                                                     *)
PageHonest ==
  outcome.kind = "entries" =>
    LET p == outcome.page
    IN p.capped <=> p.count < hits - args.offset

(* An entry is called missing only if it is.                               *)
MissingEarned ==
  outcome.kind = "entry" => (outcome.found <=> entry = "whole")

(* A default level is reported only if the server flags one and no other.  *)
DefaultUnambiguous ==
  outcome.kind = "names" /\ outcome.default # None =>
    \A n \in Names : (levels[n] = "default") <=> (n = outcome.default)

(* A file that someone else made is never written over, whenever it came   *)
(* to be there, and one said to be downloaded is whole.                    *)
TheirsIsKept == [][file = "theirs" => file' = "theirs"]_vars

(* A search that Olog answered is not turned into an error by what comes   *)
(* after it, as the docstring of _unknown_level_note has it.               *)
SearchNotOverturned ==
  [][stage = "levels" /\ stage' = "done" => outcome'.kind = "entries"]_vars

(* A search that matched something is never annotated as one that matched  *)
(* nothing, as the same docstring has it.                                  *)
OnlyGenuinelyEmpty ==
  outcome.kind = "entries" /\ outcome.note # Silent => hits = 0

=============================================================================
