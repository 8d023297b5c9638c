------------------------------ MODULE OlogWrite -------------------------------
(***************************************************************************)
(* The three logbook writes of the server: create_log_entry (and reply),   *)
(* add_log_attachment and update_log_entry (services/checkers_olog.py),    *)
(* with the gate (olog_safety.py), the client (services/olog_client.py)    *)
(* and the Olog server they talk to.                                       *)
(*                                                                         *)
(* The whole of a write, its audit line included, runs in a worker thread, *)
(* which the cancellation of the tool does not stop: a cancellation        *)
(* changes nothing here.  Threads run in parallel and share the gate.      *)
(*                                                                         *)
(* Olog replaces an entry by what is posted and prunes the attachments     *)
(* that are not listed.  So attach and update GET the entry, and POST all  *)
(* of it: between the two, anybody may have written it.                    *)
(*                                                                         *)
(* An entry has its logbooks, its plain fields (title, level, tags and     *)
(* properties), its owner, its attachments, and its body twice: the source *)
(* as it was written, which an entry of an old client has not, and the     *)
(* description that is shown, which the server renders from the source.  A *)
(* body is its text and the images it embeds.  The attachment an attach    *)
(* call uploads is named after the call: its file name starts with a fresh *)
(* id, so that it collides with no other.                                  *)
(***************************************************************************)
EXTENDS Naturals, Sequences

CONSTANTS Creates, Attaches, Updates,  \* the calls, each made once
          Logbooks,
          Allowed,     \* olog_write_logbooks
          Texts,       \* what a field or the text of a body may say
          Blank,       \* the empty one
          Rendered,    \* what the CommonMark renderer makes of a text
          Fields,      \* the plain fields of an entry
          Editable,    \* those that an update may set
          NoSource,    \* the source of an entry of an old client
          Files,       \* attachments uploaded by others
          Folded,      \* their file names in lower case, by one of its files
          NoEntry,
          Keep,        \* an argument that is not passed
          Limit,       \* olog_write_rate_limit
          MaxOutside,  \* bound: edits of the entry by others
          MaxDeaths    \* bound: deaths of the process

Calls == Creates \union Attaches \union Updates
Names == Files \union Attaches
Bodies == [text : Texts, images : SUBSET Attaches]
Entries == [books : SUBSET Logbooks, fields : [Fields -> Texts],
            source : Bodies \union {NoSource}, description : Bodies,
            owner : {"person", "account"}, files : SUBSET Names]
KeepBooks == {Keep}  \* the same for the argument that is a set of logbooks

ASSUME OlogWriteAssumption ==
  /\ Creates \intersect Attaches = {}
  /\ Creates \intersect Updates = {}
  /\ Attaches \intersect Updates = {}
  /\ Files \intersect Attaches = {}
  /\ Allowed \subseteq Logbooks
  /\ Folded \in [Files -> Files]
  /\ NoEntry \notin Entries /\ NoSource \notin Bodies
  /\ Blank \in Texts
  /\ Rendered \in [Texts -> Texts]
  /\ Editable \subseteq Fields
  /\ Keep \notin Texts /\ Keep \notin Logbooks
  /\ Limit \in Nat /\ MaxOutside \in Nat /\ MaxDeaths \in Nat

VARIABLES
  open,      \* allow_olog_write is set, and olog_url may be written to
  tokens,    \* len(_timestamps) of the gate
  pc,        \* where the thread of each call is
  args,      \* what it was asked to do
  raw,       \* the entry as it read it
  trail,     \* its lines in the audit log
  wire,      \* requests sent and neither applied nor lost
  entry,     \* the server: the entry that attach and update are about
  applied,   \* history: the writes the server applied, in order
  charged,   \* history: the calls that took a token
  outside,   \* counts the edits of others
  deaths     \* counts the deaths of the process

local == <<pc, args, raw>>
server == <<entry, applied, outside>>
vars == <<open, tokens, pc, args, raw, trail, wire, entry, applied, charged,
          outside, deaths>>

Working == {"called", "fetching", "fetched", "vetting", "admitting",
            "uploading", "sending", "posting"}
Ended == {"returned", "raised", "dead"}
Events == {"DENY", "ALLOW", "FAILED"}

(* What a tool call carries, whether it embeds an image, and whether its   *)
(* files exceed the size cap.                                              *)
ArgumentTypes ==
  [books : {KeepBooks} \union SUBSET Logbooks, fields : [Fields -> {Keep} \union Texts],
   body : {Keep} \union Texts, image : BOOLEAN, big : BOOLEAN]

KeepFields == [f \in Fields |-> Keep]

NoArguments == [books |-> KeepBooks, fields |-> KeepFields, body |-> Keep,
                image |-> FALSE, big |-> FALSE]

UpdatedFields == {fs \in [Fields -> {Keep} \union Texts] :
                    \A f \in Fields \ Editable : fs[f] = Keep}

Arguments(c) ==
  CASE c \in Creates ->
         [books : SUBSET Logbooks, fields : [Fields -> Texts], body : Texts,
          image : BOOLEAN, big : BOOLEAN]
    [] c \in Attaches ->
         [books : {KeepBooks}, fields : {KeepFields}, body : {Keep},
          image : BOOLEAN, big : BOOLEAN]
    [] c \in Updates ->
         [books : {KeepBooks} \union SUBSET Logbooks, fields : UpdatedFields,
          body : {Keep} \union Texts, image : {FALSE}, big : {FALSE}] \ {NoArguments}

Render(body) == [body EXCEPT !.text = Rendered[@]]

HasApplied(c) == \E i \in 1 .. Len(applied) : applied[i].by = c
-----------------------------------------------------------------------------
Init ==
  /\ open \in BOOLEAN
  /\ tokens = 0
  /\ pc = [c \in Calls |-> "idle"]
  /\ args = [c \in Calls |-> NoArguments]
  /\ raw = [c \in Calls |-> NoEntry]
  /\ trail = [c \in Calls |-> <<>>]
  /\ wire = {}
  /\ entry \in Entries
  /\ entry.files \subseteq Files
  /\ entry.source # NoSource => entry.description = Render(entry.source)
  /\ applied = <<>>
  /\ charged = {}
  /\ outside = 0
  /\ deaths = 0

Goto(c, from, to) ==
  /\ pc[c] = from
  /\ pc' = [pc EXCEPT ![c] = to]

Audit(c, event) == trail' = [trail EXCEPT ![c] = Append(@, event)]

(* A step of a thread that only moves on: no line, no token, no request.   *)
Proceed(c, from, to) ==
  /\ Goto(c, from, to)
  /\ UNCHANGED <<open, tokens, args, raw, trail, wire, server, charged, deaths>>

(* The gate's DENY is logged before it is raised, and takes no token.      *)
Deny(c, from) ==
  /\ Goto(c, from, "raised")
  /\ Audit(c, "DENY")
  /\ UNCHANGED <<open, tokens, args, raw, wire, server, charged, deaths>>

Call(c, a) ==
  /\ Goto(c, "idle", "called")
  /\ args' = [args EXCEPT ![c] = a]
  /\ UNCHANGED <<open, tokens, raw, trail, wire, server, charged, deaths>>
-----------------------------------------------------------------------------
(* check_write_preconditions: logbooks, environment and URL, allowlist.    *)
Precondition(books) == books # {} /\ open /\ books \subseteq Allowed

DenyCreate(c) ==
  /\ c \in Creates
  /\ ~Precondition(args[c].books)
  /\ Deny(c, "called")

BeginCreate(c) ==
  /\ c \in Creates
  /\ Precondition(args[c].books)
  /\ Proceed(c, "called", "vetting")

(* check_write_env_and_url: a target the gate refuses is not read.         *)
DenyUnread(c) ==
  /\ c \notin Creates
  /\ ~open
  /\ Deny(c, "called")

BeginFetch(c) ==
  /\ c \notin Creates
  /\ open
  /\ Proceed(c, "called", "fetching")

Fetch(c) ==
  /\ Goto(c, "fetching", "fetched")
  /\ raw' = [raw EXCEPT ![c] = entry]
  /\ UNCHANGED <<open, tokens, args, trail, wire, server, charged, deaths>>

(* No such entry, an unreadable answer, no answer, or the read throttle.   *)
FetchFail(c) == Proceed(c, "fetching", "raised")
-----------------------------------------------------------------------------
(* What is decided from the entry that was read.                           *)

Fold(f) == IF f \in Files THEN Folded[f] ELSE f

(* attachment_round_trip: files whose names collide cannot be kept.        *)
Offenders(e) == {f \in e.files : \E g \in e.files \ {f} : Fold(g) = Fold(f)}

EffectiveBooks(c) == IF args[c].books = KeepBooks THEN raw[c].books ELSE args[c].books

(* Broken variant: the logbooks the entry would move to are not looked at. *)
CurrentBooksOnly(c) == raw[c].books

(* An update writes to the logbooks before it and to those after it.       *)
GateBooks(c) ==
  IF c \in Updates THEN raw[c].books \union EffectiveBooks(c) ELSE raw[c].books

(* Refused outside the gate, and so without a line: an update of an entry  *)
(* that would lose a file, or be left in no logbook.                       *)
RefuseUpdate(c) ==
  /\ c \in Updates
  /\ pc[c] = "fetched"
  /\ Offenders(raw[c]) # {} \/ EffectiveBooks(c) = {}
  /\ Proceed(c, "fetched", "raised")

Safe(c) == c \in Updates => Offenders(raw[c]) = {} /\ EffectiveBooks(c) # {}

DenyFetched(c) ==
  /\ pc[c] = "fetched"
  /\ Safe(c)
  /\ ~Precondition(GateBooks(c))
  /\ Deny(c, "fetched")

PassFetched(c) ==
  /\ pc[c] = "fetched"
  /\ Safe(c)
  /\ Precondition(GateBooks(c))
  /\ Proceed(c, "fetched", "vetting")

(* The level, logbooks and tags are looked up at the server, and the files *)
(* are sized: all before a token is spent.                                 *)
Vet(c) == Proceed(c, "vetting", "admitting")

VetFail(c) == Proceed(c, "vetting", "raised")
-----------------------------------------------------------------------------
(* check_write_allowed: the preconditions once more, on the same data, the *)
(* size cap, and the token last.                                           *)

DenyAdmission(c) ==
  /\ pc[c] = "admitting"
  /\ args[c].big \/ tokens >= Limit
  /\ Deny(c, "admitting")

Admit(c) ==
  /\ ~args[c].big
  /\ tokens < Limit
  /\ Goto(c, "admitting", "uploading")
  /\ tokens' = tokens + 1
  /\ charged' = charged \union {c}
  /\ UNCHANGED <<open, args, raw, trail, wire, server, deaths>>

(* Broken variant: purges without looking whether there is a token.        *)
EmptyExpire ==
  /\ tokens' = tokens - 1
  /\ UNCHANGED <<open, local, trail, wire, server, charged, deaths>>

(* The oldest token leaves the window (see TokenPool, RateWindow).         *)
Expire ==
  /\ tokens > 0
  /\ tokens' = tokens - 1
  /\ UNCHANGED <<open, local, trail, wire, server, charged, deaths>>

ReadUploads(c) == Proceed(c, "uploading", "sending")

(* A file that is gone or has grown since it was sized: the token is       *)
(* spent, and there is no line.  An update has no files.                   *)
ReadUploadsFail(c) == c \notin Updates /\ Proceed(c, "uploading", "raised")
-----------------------------------------------------------------------------
(* The request.  The attach client refuses to prune, after the admission.  *)
RefuseAttach(c) ==
  /\ c \in Attaches
  /\ Goto(c, "sending", "raised")
  /\ Offenders(raw[c]) # {}
  /\ Audit(c, "FAILED")
  /\ UNCHANGED <<open, tokens, args, raw, wire, server, charged, deaths>>

Send(c) ==
  /\ Goto(c, "sending", "posting")
  /\ c \in Attaches => Offenders(raw[c]) = {}
  /\ wire' = wire \union {c}
  /\ UNCHANGED <<open, tokens, args, raw, trail, server, charged, deaths>>

(* The attachments that the request lists, so that the server keeps them.  *)
Listed(c) == raw[c].files

(* None is not passed; every other field is posted as it was read.         *)
PostedFields(c) ==
  [f \in Fields |-> IF args[c].fields[f] = Keep THEN raw[c].fields[f] ELSE args[c].fields[f]]

Embedded(c) == IF args[c].image THEN {c} ELSE {}

(* Broken variant: a new body is posted beside the old source.             *)
StaleSource(c) ==
  IF args[c].image
    THEN IF raw[c].source = NoSource
           THEN [text |-> Blank, images |-> Embedded(c)]
           ELSE [raw[c].source EXCEPT !.images = @ \union Embedded(c)]
    ELSE raw[c].source

(* A new body is a new source.  The markup of an embedded image is added   *)
(* to the source, or is the source of an entry that has none.              *)
PostedSource(c) ==
  CASE args[c].body # Keep -> [text |-> args[c].body, images |-> {}]
    [] args[c].body = Keep /\ ~args[c].image -> raw[c].source
    [] args[c].body = Keep /\ args[c].image /\ raw[c].source = NoSource ->
         [text |-> Blank, images |-> Embedded(c)]
    [] args[c].body = Keep /\ args[c].image /\ raw[c].source # NoSource ->
         [raw[c].source EXCEPT !.images = @ \union Embedded(c)]

PostedDescription(c) ==
  IF args[c].body = Keep THEN raw[c].description ELSE [text |-> args[c].body, images |-> {}]

(* An update of an entry without a source that keeps its body says in its  *)
(* answer that the body is rendered anew.                                  *)
Warned(c) == c \in Updates /\ args[c].body = Keep /\ raw[c].source = NoSource

(* Broken variant: an answer that is not an entry passes for the success.  *)
CredulousPostOk(c) ==
  /\ Goto(c, "posting", "returned")
  /\ Audit(c, "ALLOW")
  /\ UNCHANGED <<open, tokens, args, raw, wire, server, charged, deaths>>

PostOk(c) ==
  /\ HasApplied(c)
  /\ Goto(c, "posting", "returned")
  /\ Audit(c, "ALLOW")
  /\ UNCHANGED <<open, tokens, args, raw, wire, server, charged, deaths>>

(* Broken variants: the write session retries; the failure is logged, and  *)
(* the write tried again; a lost answer is waited for.                     *)
RetryingPostFail(c) ==
  /\ pc[c] = "posting"
  /\ wire' = wire \union {c}
  /\ UNCHANGED <<open, tokens, local, trail, server, charged, deaths>>

LoggingPostRetry(c) ==
  /\ Len(trail[c]) < 2
  /\ Goto(c, "posting", "sending")
  /\ Audit(c, "FAILED")
  /\ UNCHANGED <<open, tokens, args, raw, wire, server, charged, deaths>>

PatientPostFail(c) ==
  /\ HasApplied(c)
  /\ Goto(c, "posting", "raised")
  /\ Audit(c, "FAILED")
  /\ UNCHANGED <<open, tokens, args, raw, wire, server, charged, deaths>>

(* An error, an answer that is not an entry, or none within the timeout.   *)
PostFail(c) ==
  /\ Goto(c, "posting", "raised")
  /\ Audit(c, "FAILED")
  /\ UNCHANGED <<open, tokens, args, raw, wire, server, charged, deaths>>
-----------------------------------------------------------------------------
(* The Olog server.                                                        *)

(* retainAll: an attachment is kept if one of its name is listed, and of   *)
(* attachments with the same name one is kept.                             *)
Retained(persisted, listed) ==
  LET matching == {f \in persisted : \E g \in listed : Fold(g) = Fold(f)}
  IN {kept \in SUBSET matching :
        \A f \in matching : \E g \in kept :
          Fold(g) = Fold(f) /\ \A h \in kept : Fold(h) = Fold(f) => h = g}

Record(c, before, after) ==
  /\ wire' = wire \ {c}
  /\ applied' = Append(applied, [by |-> c, before |-> before, after |-> after])
  /\ UNCHANGED <<open, tokens, local, trail, charged, outside, deaths>>

ApplyCreate(c) ==
  /\ c \in wire \intersect Creates
  /\ LET body == [text |-> args[c].body, images |-> {}] IN
       Record(c, NoEntry, [books |-> args[c].books, fields |-> args[c].fields,
                           source |-> body, description |-> Render(body),
                           owner |-> "account", files |-> {}])
  /\ UNCHANGED entry

(* updateLog: what is posted replaces what was there, the description is   *)
(* rendered, and the owner is whoever posts.                               *)
ApplyPost(c) ==
  /\ c \in wire \ Creates
  /\ \E kept \in Retained(entry.files, Listed(c)) :
       entry' = [books |-> EffectiveBooks(c),
                 fields |-> PostedFields(c),
                 source |-> PostedSource(c),
                 description |-> Render(IF PostedSource(c) = NoSource
                                          THEN PostedDescription(c) ELSE PostedSource(c)),
                 owner |-> "account",
                 files |-> kept \union ({c} \intersect Attaches)]
  /\ Record(c, entry, entry')

Lose(c) ==
  /\ c \in wire
  /\ wire' = wire \ {c}
  /\ UNCHANGED <<open, tokens, local, trail, server, charged, deaths>>

(* Somebody else moves the entry, or adds or removes an attachment.        *)
OutsideEdit(books, files) ==
  /\ outside < MaxOutside
  /\ outside' = outside + 1
  /\ entry' = [entry EXCEPT !.books = books, !.files = (@ \ Files) \union files]
  /\ UNCHANGED <<open, tokens, local, trail, wire, applied, charged, deaths>>

(* The process dies with its threads; its requests and the log survive.    *)
Die ==
  /\ deaths < MaxDeaths
  /\ deaths' = deaths + 1
  /\ tokens' = 0
  /\ pc' = [c \in Calls |-> IF pc[c] \in Working THEN "dead" ELSE pc[c]]
  /\ UNCHANGED <<open, args, raw, trail, wire, server, charged>>
-----------------------------------------------------------------------------
ThreadStep(c) ==
  \/ DenyCreate(c) \/ BeginCreate(c) \/ DenyUnread(c) \/ BeginFetch(c)
  \/ Fetch(c) \/ FetchFail(c)
  \/ RefuseUpdate(c) \/ DenyFetched(c) \/ PassFetched(c)
  \/ Vet(c) \/ VetFail(c)
  \/ DenyAdmission(c) \/ Admit(c)
  \/ ReadUploads(c) \/ ReadUploadsFail(c)
  \/ RefuseAttach(c) \/ Send(c) \/ PostOk(c) \/ PostFail(c)

Under ==
  \/ \E c \in Calls :
       \/ ThreadStep(c)
       \/ ApplyCreate(c) \/ ApplyPost(c) \/ Lose(c)
  \/ Expire
  \/ \E books \in SUBSET Logbooks, files \in SUBSET Files : OutsideEdit(books, files)
  \/ Die

Next == Under \/ \E c \in Calls : \E a \in Arguments(c) : Call(c, a)

Spec == Init /\ [][Next]_vars

(* A thread runs, and each HTTP request carries a timeout, so that it ends *)
(* with an answer or without.  Nothing is assumed of the server.           *)
FairSpec == Spec /\ \A c \in Calls : WF_vars(ThreadStep(c))
-----------------------------------------------------------------------------
(* Every variable holds a value the code gives it.                         *)
TypeOK ==
  /\ open \in BOOLEAN
  /\ tokens \in Nat /\ outside \in Nat /\ deaths \in Nat
  /\ pc \in [Calls -> {"idle"} \union Working \union Ended]
  /\ args \in [Calls -> ArgumentTypes]
  /\ raw \in [Calls -> Entries \union {NoEntry}]
  /\ trail \in [Calls -> Seq(Events)]
  /\ wire \subseteq Calls
  /\ entry \in Entries
  /\ applied \in Seq([by : Calls, before : Entries \union {NoEntry}, after : Entries])
  /\ charged \subseteq Calls

(* What reaches the logbook stays within the allowlist: the entry as it    *)
(* was read, and as it was written, was in allowed logbooks only, and      *)
(* never in none; a write of a closed gate never gets there.               *)
OnlyAllowedBooks ==
  \A i \in 1 .. Len(applied) :
    LET c == applied[i].by IN
      /\ open
      /\ applied[i].after.books # {}
      /\ applied[i].after.books \subseteq Allowed
      /\ c \notin Creates => raw[c].books \subseteq Allowed

(* What becomes of a body that a call keeps.  With a source, it shows what *)
(* it showed, and the image.  Without one, the server renders what was     *)
(* shown as if it were markup, which only an update says; an image takes   *)
(* the place of it (see AttachKeepsBody).                                  *)
BodyKept(c, before, after) ==
  /\ before.source # NoSource =>
       /\ after.source.text = before.source.text
       /\ after.description.text = before.description.text
       /\ after.description.images = before.description.images \union Embedded(c)
  /\ before.source = NoSource /\ ~args[c].image =>
       /\ after.description.images = before.description.images
       /\ \/ after.description.text = before.description.text
          \/ /\ after.description.text = Rendered[before.description.text]
             /\ c \in Updates => Warned(c)

(* An attach or an update that nobody disturbs loses nothing but the owner *)
(* of the entry, and of an entry without a source what BodyKept says: if   *)
(* the entry is still what was read, every attachment survives, every      *)
(* logbook and field that was not asked for stays, a body that was asked   *)
(* for is the one that shows, and any other is kept.                       *)
UndisturbedLosesNothing ==
  \A i \in 1 .. Len(applied) :
    LET c == applied[i].by
        before == applied[i].before
        after == applied[i].after
    IN c \notin Creates /\ before = raw[c] =>
         /\ before.files \subseteq after.files
         /\ args[c].books = KeepBooks => after.books = before.books
         /\ \A f \in Fields : args[c].fields[f] = Keep => after.fields[f] = before.fields[f]
         /\ args[c].body # Keep => after.description.text = Rendered[args[c].body]
         /\ args[c].body = Keep => BodyKept(c, before, after)

(* A write is sent once: a lost answer never makes a second entry or a     *)
(* second edit.                                                            *)
AppliedAtMostOnce ==
  \A i, j \in 1 .. Len(applied) : applied[i].by = applied[j].by => i = j

(* The gate, which is asked up to three times, and the outcome leave at    *)
(* most one line together.  What was denied is never sent and costs no     *)
(* token; what was sent had a token; and what reached the logbook is in    *)
(* the log as soon as the call is over, unless the process died before.    *)
RecordTrue ==
  \A c \in Calls :
    /\ Len(trail[c]) <= 1
    /\ trail[c] = <<"DENY">> => c \notin wire \union charged /\ ~HasApplied(c)
    /\ c \in wire \/ HasApplied(c) => c \in charged
    /\ HasApplied(c) /\ pc[c] \in {"returned", "raised"} =>
         trail[c] \in {<<"ALLOW">>, <<"FAILED">>}

(* Every call ends, unless the process dies.                               *)
EveryWriteEnds == \A c \in Calls : pc[c] \in Working ~> pc[c] \in Ended

(* The three writes implement the gated write.                             *)
Gate == INSTANCE GatedWrite WITH
  recorded <- [c \in Calls |-> IF trail[c] = <<>> THEN "nothing" ELSE trail[c][1]],
  written <- {c \in Calls : HasApplied(c)}

GateRefined == Gate!GateSpec
-----------------------------------------------------------------------------
(* What the repository says of the program and the code does not do.       *)

(* An attach is "additive for CONTENT: nothing pruned" (olog_client.py).   *)
AttachIsAdditive ==
  \A i \in 1 .. Len(applied) :
    applied[i].by \in Attaches =>
      applied[i].before.files \subseteq applied[i].after.files

(* "No content field wiped" (olog_client.py), "every CONTENT field" is     *)
(* preserved (server.py): after an attach, the text that was shown is      *)
(* still shown, if rendered anew.                                          *)
AttachKeepsBody ==
  \A i \in 1 .. Len(applied) :
    LET before == applied[i].before
        after == applied[i].after
    IN applied[i].by \in Attaches =>
         after.description.text \in {before.description.text, Rendered[before.description.text]}

(* The allowlist covers "the entry's current logbooks" and those it ends   *)
(* up in: moving it out of one is a write to that one (checkers_olog.py).  *)
CurrentBooksGated ==
  \A i \in 1 .. Len(applied) :
    applied[i].by \in Updates => applied[i].before.books \subseteq Allowed
=============================================================================
