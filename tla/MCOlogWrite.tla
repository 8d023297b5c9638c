----------------------------- MODULE MCOlogWrite ------------------------------
(* One or two files of the same name up to case, one logbook that may be   *)
(* written and one that may not.  Of a create, an attach and an update two *)
(* are under way, and either somebody edits the entry or the process dies. *)
EXTENDS OlogWrite, FiniteSets

CONSTANT f

(* 0 is the empty text, and the renderer makes 3 of 1.                     *)
MCTexts == 0 .. 3
MCRendered == [t \in MCTexts |-> IF t = 1 THEN 3 ELSE t]
MCFolded == [h \in Files |-> CHOOSE g \in Files : TRUE]

(* An entry of somebody else that says 1 everywhere and has no image, with *)
(* a source or without, and with an attachment, or two that collide.       *)
MCEntries ==
  [books : SUBSET Logbooks, fields : {[h \in Fields |-> 1]},
   source : {NoSource, [text |-> 1, images |-> {}]},
   description : {[text |-> t, images |-> {}] : t \in {1, 3}},
   owner : {"person"}, files : {{f}, Files}]

MCInit ==
  /\ entry \in MCEntries
  /\ Init
  /\ entry.source = NoSource =>
       entry.description.text = 1 /\ entry.files = {f} /\ entry.books = Allowed
  /\ entry.files = {f} \/ entry.books = Allowed

(* Calls write 2, into the fields and the body, or move the entry.     *)
MCArguments(c) ==
  CASE c \in Creates ->
         {[books |-> bs, fields |-> [h \in Fields |-> 2], body |-> 2,
           image |-> FALSE, big |-> FALSE] : bs \in {{}, Allowed, Logbooks}}
    [] c \in Attaches -> {a \in Arguments(c) : ~(a.image /\ a.big)}
    [] c \in Updates ->
         {[NoArguments EXCEPT !.books = bs] : bs \in {{}, Allowed, Logbooks}}
           \union {[NoArguments EXCEPT !.body = 2, !.fields =
                      [h \in Fields |-> IF h \in Editable THEN 2 ELSE Keep]]}

(* Others move the entry, or change its attachments, one of them at a time.*)
MCNext ==
  /\ Under \/ \E c \in Calls : \E a \in MCArguments(c) : Call(c, a)
  /\ Cardinality({c \in Calls : pc'[c] # "idle"}) <= 2
  /\ outside' + deaths' <= 1
  /\ outside' # outside => \/ entry'.books = entry.books
                          \/ entry'.files = entry.files

MCSpec == MCInit /\ [][MCNext]_vars /\ \A c \in Calls : WF_vars(ThreadStep(c))

(* The same without the fairness.                                          *)
MCRaceSpec == MCInit /\ [][MCNext]_vars
=============================================================================
