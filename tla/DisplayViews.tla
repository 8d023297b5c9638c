----------------------------- MODULE DisplayViews ------------------------------
(***************************************************************************)
(* The two views of a display file that validate_pvs extracts from one     *)
(* inventory walk (_run_validate, tools/validate.py), and what it says of  *)
(* their completeness.                                                     *)
(*                                                                         *)
(* The walk is the work of another package.  It is modelled here from what *)
(* _run_validate and its helpers say of it: every file is a top of its own *)
(* and is seeded without a binding; a file is visited once for each        *)
(* binding that reaches it under a top, past a cap for each pair of target *)
(* and top no more; diagnostics keep the target of what was dropped, not   *)
(* its top.  Files embed files of a higher number only.                    *)
(***************************************************************************)
EXTENDS Integers, FiniteSets

CONSTANTS NumFiles,
          Values,      \* what an embedding may bind the macro to
          ContextCap   \* the engine's cap on contexts

Files == 1 .. NumFiles
Unbound == "unbound"
Inherit == "inherit"   \* an embedding that passes the macro on

VARIABLES
  embeds,     \* the embeddings: <<parent, child, binding>>
  plain,      \* files that declare a channel without a macro
  templated,  \* files that declare one with it
  contexts,   \* the bindings under which the walk visited each pair
  capped,     \* diagnostics.context_capped
  left,       \* the pairs the walk has not come to
  found       \* what _run_validate extracts, of every file

vars == <<embeds, plain, templated, contexts, capped, left, found>>

Pairs == {p \in Files \X Files : p[1] <= p[2]}

(* The bindings that reach a file under a top from those of its parents.   *)
Flow(of, top, file) ==
  IF file = top THEN {Unbound}
  ELSE UNION {{IF e[3] = Inherit THEN b ELSE e[3] : b \in of[<<top, e[1]>>]} :
                e \in {d \in embeds : d[2] = file /\ d[1] >= top}}

(* With no cap.                                                            *)
Lifted ==
  LET full[p \in Pairs] == Flow(full, p[1], p[2]) IN full

(* What an occurrence yields: a templated one a channel for each binding.  *)
Events(of) ==
  LET occurrences(p) ==
        {[top |-> p[1], origin |-> p[2], templated |-> FALSE, resolved |-> TRUE,
          channel |-> <<p[2], "plain">>] : f \in {p[2]} \intersect plain}
        \union
        {[top |-> p[1], origin |-> p[2], templated |-> TRUE, resolved |-> b # Unbound,
          channel |-> <<p[2], b>>] : b \in IF p[2] \in templated THEN of[p] ELSE {}}
  IN UNION {occurrences(p) : p \in {q \in Pairs : of[q] # {}}}

Channels(events) == {ev.channel : ev \in {e \in events : e.resolved}}

(* A display of its own: the events under it as a top.                     *)
DisplayEvents(of, rel) == {ev \in Events(of) : ev.top = rel}

(* What the file declares, under whichever top.                            *)
FileEvents(of, rel) == {ev \in Events(of) : ev.origin = rel}
-----------------------------------------------------------------------------
NotFound == [file |-> FALSE, fileCapped |-> FALSE, shown |-> FALSE, shownCapped |-> FALSE]

Init ==
  /\ embeds \in SUBSET {e \in Files \X Files \X (Values \union {Inherit}) : e[1] < e[2]}
  /\ plain \in SUBSET Files
  /\ templated \in SUBSET Files
  /\ contexts = [p \in Pairs |-> {}]
  /\ capped = {}
  /\ left = Pairs
  /\ found = <<>>

(* The walk visits a pair, its parents under the top before it.            *)
Visit(top, file) ==
  /\ <<top, file>> \in left
  /\ \A p \in left : p[1] > top \/ (p[1] = top /\ p[2] >= file)
  /\ LET reach == Flow(contexts, top, file) IN
     /\ \E kept \in SUBSET reach :
          /\ Cardinality(kept) =
               IF Cardinality(reach) > ContextCap THEN ContextCap ELSE Cardinality(reach)
          /\ contexts' = [contexts EXCEPT ![<<top, file>>] = kept]
     /\ capped' = IF Cardinality(reach) > ContextCap THEN capped \union {file} ELSE capped
  /\ left' = left \ {<<top, file>>}
  /\ UNCHANGED <<embeds, plain, templated, found>>

(* Broken variant: the tops are those of channels that resolved.           *)
ResolvedMacroTops(rel) ==
  {ev.top : ev \in {e \in FileEvents(contexts, rel) : e.templated /\ e.resolved}}

(* Taken before the filter for what resolved.                              *)
MacroTops(rel) ==
  {ev.top : ev \in {e \in FileEvents(contexts, rel) : e.templated}}

(* Taken behind it.                                                        *)
Origins(rel) ==
  {ev.origin : ev \in {e \in DisplayEvents(contexts, rel) : e.resolved}}

(* _file_view_is_capped                                                    *)
FileViewIsCapped(rel) ==
  /\ MacroTops(rel) # {}
  /\ rel \in capped \/ MacroTops(rel) \intersect capped # {}

(* _display_view_is_capped                                                 *)
DisplayViewIsCapped(rel) ==
  rel \in capped \/ Origins(rel) \intersect capped # {}

(* _run_validate of every file.                                            *)
Extract ==
  /\ left = {} /\ found = <<>>
  /\ found' = [rel \in Files |->
       [file |-> Channels(FileEvents(contexts, rel)),
        fileCapped |-> FileViewIsCapped(rel),
        shown |-> Channels(DisplayEvents(contexts, rel)),
        shownCapped |-> DisplayViewIsCapped(rel)]]
  /\ UNCHANGED <<embeds, plain, templated, contexts, capped, left>>

Next == (\E p \in Pairs : Visit(p[1], p[2])) \/ Extract

Spec == Init /\ [][Next]_vars
-----------------------------------------------------------------------------
Extracted == DOMAIN found

(* "this answer is complete": a file view that is not called a lower bound *)
(* does not grow when the cap is lifted.                                   *)
FileViewComplete ==
  \A rel \in Extracted :
    ~found[rel].fileCapped => found[rel].file = Channels(FileEvents(Lifted, rel))

(* "calling such an answer a lower bound would be a false statement": a    *)
(* file view is not called one when the file declares nothing that a       *)
(* larger cap could add.                                                   *)
FileViewNotSlandered ==
  \A rel \in Extracted :
    found[rel].fileCapped => rel \in templated /\ capped # {}

(* A capped file that a display reaches and that shows no channel of its   *)
(* own in it: it declares none, or only with a macro that is never bound.  *)
Mute(rel, x) ==
  /\ <<rel, x>> \in Pairs /\ contexts[<<rel, x>>] # {}
  /\ x \notin plain
  /\ x \in templated => contexts[<<rel, x>>] = {Unbound}

(* A display view shows nothing that it would not show without the cap,    *)
(* and one that is not called a lower bound misses a channel only behind a *)
(* capped file that is mute in it: "the origins term is sound" but for     *)
(* those (see CappedIsAmongOrigins).                                       *)
DisplayViewComplete ==
  \A rel \in Extracted :
    LET full == Channels(DisplayEvents(Lifted, rel)) IN
      /\ found[rel].shown \subseteq full
      /\ ~found[rel].shownCapped =>
           \A ch \in full \ found[rel].shown :
             \E x \in capped : Mute(rel, x) /\ Lifted[<<x, ch[1]>>] # {}

(* "The origins term is sound because [...] a capped X has necessarily     *)
(* contributed PVs here and is visible among the origin files of this      *)
(* display's own events": a display view that is not called a lower bound  *)
(* misses nothing, whatever was capped (_display_view_is_capped).          *)
CappedIsAmongOrigins ==
  \A rel \in Extracted :
    ~found[rel].shownCapped => found[rel].shown = Channels(DisplayEvents(Lifted, rel))
=============================================================================
