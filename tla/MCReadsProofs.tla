----------------------------- MODULE MCReadsProofs -----------------------------
(***************************************************************************)
(* TLAPS proofs about the read side of the REST planes (MCReads): the      *)
(* transport, the windows, the filters of ChannelFinder, the read tools    *)
(* and those of the logbook, each by an invariant of its own, which the    *)
(* steps of the others leave alone.                                        *)
(***************************************************************************)
EXTENDS MCReads, FiniteSetTheorems, SequenceTheorems, TLAPS

LEMMA Numbers ==
  /\ Retries \in Nat /\ MaxHops \in Nat /\ MaxBytes \in Nat /\ Budget \in Nat
  /\ Now \in Nat /\ Zone \in Nat /\ MaxRecords \in Nat /\ EsMax \in Nat
  /\ MaxHits \in Nat /\ AttachMax \in Nat /\ Base64Max \in Nat
  /\ Limit \in Nat /\ Limit > 0 /\ PageSize \in Nat /\ PageSize > 0
  /\ EsMax > Limit
BY ReadsAssumption
-----------------------------------------------------------------------------
(* What the transport can be in: types, with the bounds of a body.         *)
Phases == {"start", "try", "answered", "body", "done"}
CallTyped ==
  /\ kind \in Transport!Kinds /\ follow \in BOOLEAN /\ phase \in Phases
  /\ left \in Int /\ hops \in Nat
  /\ reply \in {"none", "lost"} \union Transport!Answers
  /\ out \in {"none", "limited", "conn", "resp", "data"}
  /\ sent \in Nat /\ applied \in Nat

BodyTyped ==
  /\ body \in [size : Nat, declared : Int, held : Nat]
  /\ body.held <= body.size /\ body.held <= MaxBytes

(* A write has one attempt, has used none before its only one, and is not  *)
(* led elsewhere.                                                          *)
OneAttempt ==
  kind = "put" =>
    /\ phase \in {"start", "try"} => left = 1 /\ sent = 0 /\ applied = 0
    /\ applied <= 1 /\ sent <= 1
    /\ out # "limited"

Course ==
  /\ follow => kind = "json"
  /\ hops > 0 => follow
  /\ phase = "answered" => reply # "none" /\ (reply = "lost" => left = 0)
  /\ phase = "body" => kind = "bytes" /\ reply = "good"

Outcomes ==
  /\ phase # "done" => out = "none"
  /\ out = "conn" => \/ reply = "lost" /\ left = 0
                     \/ kind = "bytes" /\ reply = "good"
  /\ out = "data" /\ kind = "bytes" => body.held = body.size

TransportInv == CallTyped /\ BodyTyped /\ OneAttempt /\ Course /\ Outcomes

LEMMA TransportStarts == Transport!Init => TransportInv
<1>1. ASSUME Transport!Init
      PROVE  TransportInv
  <2>0. follow \in BOOLEAN /\ (follow => kind = "json")
    <3>1. CASE kind = "json"
      BY <1>1, <3>1 DEF Transport!Init
    <3>2. CASE kind # "json"
      <4>1. follow \in {FALSE}
        BY <1>1, <3>2 DEF Transport!Init
      <4>2. QED
        BY <4>1
    <3>3. QED
      BY <3>1, <3>2
  <2>1. CallTyped
    BY <1>1, <2>0, Numbers DEF Transport!Init, CallTyped, Phases, Transport!Kinds,
       Transport!Attempts, Transport!None
  <2>2. BodyTyped
    BY <1>1, Numbers DEF Transport!Init, BodyTyped, Transport!NoBody, Transport!Undeclared
  <2>3. OneAttempt /\ Course /\ Outcomes
    BY <1>1, <2>0, <2>1 DEF Transport!Init, OneAttempt, Course, Outcomes, Transport!Attempts,
       Transport!None, Transport!NoBody
  <2>4. QED
    BY <2>1, <2>2, <2>3 DEF TransportInv
<1>2. QED
  BY <1>1

LEMMA TransportKept ==
  ASSUME TransportInv, Transport!Next
  PROVE  TransportInv'
<1>0. CallTyped /\ BodyTyped /\ OneAttempt /\ Course /\ Outcomes
  BY DEF TransportInv
<1> USE DEF CallTyped, OneAttempt, Course, Outcomes, Phases, Transport!Kinds,
            Transport!Answers, Transport!Finish
<1>1. CASE Transport!Throttle
  BY <1>0, <1>1 DEF Transport!Throttle, TransportInv, BodyTyped
<1>2. CASE Transport!Lost
  BY <1>0, <1>2 DEF Transport!Lost, TransportInv, BodyTyped
<1>3. CASE Transport!Busy
  BY <1>0, <1>3 DEF Transport!Busy, TransportInv, BodyTyped
<1>4. ASSUME NEW a \in Transport!Answers, Transport!Answered(a)
      PROVE  TransportInv'
  <2>1. BodyTyped'
    <3>1. body' = Transport!NoBody \/ body' \in Transport!Bodies
      BY <1>4 DEF Transport!Answered
    <3>2. QED
      BY <3>1, ReadsAssumption, Numbers DEF BodyTyped, Transport!Bodies, Transport!NoBody,
         Transport!Undeclared
  <2>2. (CallTyped /\ OneAttempt /\ Course /\ Outcomes)'
    BY <1>0, <1>4 DEF Transport!Answered
  <2>3. QED
    BY <2>1, <2>2 DEF TransportInv
<1>5. CASE Transport!Redirected
  BY <1>0, <1>5, Numbers DEF Transport!Redirected, Transport!Attempts, TransportInv, BodyTyped
<1>6. CASE Transport!Failed
  <2>1. reply \in {"lost", "status", "busy", "redirect", "junk"}
    BY <1>0, <1>6 DEF Transport!Failed
  <2>2. /\ phase' = "done" /\ phase = "answered"
        /\ UNCHANGED <<kind, follow, left, hops, reply, body, sent, applied>>
    BY <1>6 DEF Transport!Failed
  <2>3. PICK blame \in Transport!Blame(reply) : out' = blame
    BY <1>6 DEF Transport!Failed
  <2>4. out' \in {"conn", "resp"} /\ (out' = "conn" => reply = "lost")
    BY <2>3, <2>1 DEF Transport!Blame
  <2>5. QED
    BY <1>0, <2>2, <2>4 DEF TransportInv, BodyTyped
<1>7. CASE Transport!Parsed
  BY <1>0, <1>7 DEF Transport!Parsed, TransportInv, BodyTyped
<1>8. CASE Transport!Declared
  BY <1>0, <1>8 DEF Transport!Declared, TransportInv, BodyTyped
<1>9. CASE Transport!ReadBlock
  <2>1. BodyTyped'
    BY <1>0, <1>9, Numbers DEF Transport!ReadBlock, Transport!OverCap, BodyTyped
  <2>2. (CallTyped /\ OneAttempt /\ Course /\ Outcomes)'
    BY <1>0, <1>9 DEF Transport!ReadBlock
  <2>3. QED
    BY <2>1, <2>2 DEF TransportInv
<1>10. CASE Transport!BodyCut
  BY <1>0, <1>10 DEF Transport!BodyCut, TransportInv, BodyTyped
<1>11. CASE Transport!BodyEnds
  BY <1>0, <1>11 DEF Transport!BodyEnds, TransportInv, BodyTyped
<1>12. QED
  BY <1>1, <1>2, <1>3, <1>4, <1>5, <1>6, <1>7, <1>8, <1>9, <1>10, <1>11 DEF Transport!Next

(* A write is carried out at most once, data come from the configured host *)
(* unless redirects are allowed, a server that answered is not blamed as   *)
(* unreachable, and of a body no more than the cap is held, and never a    *)
(* part of it handed over (services/_http.py).                             *)
THEOREM TransportEarned == FairSpec => []TransportHonest
<1>1. Init => TransportInv
  BY TransportStarts DEF Init
<1>2. TransportInv /\ [Next]_vars => TransportInv'
  <2>1. ASSUME TransportInv, UNCHANGED transportVars
        PROVE  TransportInv'
    BY <2>1 DEF transportVars, TransportInv, CallTyped, BodyTyped, OneAttempt, Course, Outcomes
  <2>2. QED
    BY <2>1, TransportKept DEF Next, vars, TransportStep, WindowStep, ChannelStep, PlaneDrift,
       PlaneStep, LogbookDrift, LogbookStep
<1>3. TransportInv => TransportHonest
  BY DEF TransportInv, CallTyped, BodyTyped, OneAttempt, Course, Outcomes, TransportHonest,
     Transport!WrittenOnce, Transport!OriginKept, Transport!OutageNamed, Transport!BodyCapped
<1>4. QED
  BY <1>1, <1>2, <1>3, PTL DEF FairSpec
-----------------------------------------------------------------------------
(* The logbook, which nobody edits once the call has ended.                *)
BookTyped ==
  /\ op \in Logbook!Ops
  /\ levels \in [Logbook!Names -> Logbook!Flags] /\ levels \in past
  /\ hits \in Nat
  /\ op = "search" => args.level # {} /\ args.offset \in Nat
  /\ stage \in {"start", "get", "levels", "write", "done"}
  /\ stage # "done" => outcome = [kind |-> "none"]

(* What passed the checks of the arguments.                                *)
Checked ==
  stage \notin {"start", "done"} /\ op = "search" =>
    args.level # {""} /\ ~Logbook!TitleBlank(args.title)

(* A page that has come in and is looked into.                             *)
Pending ==
  stage = "levels" =>
    /\ args.level # Logbook!NoFilter
    /\ page.capped <=> page.count < hits - args.offset

BookInv ==
  /\ BookTyped /\ Checked /\ Pending
  /\ Logbook!EmptyExplained /\ Logbook!PageHonest
  /\ Logbook!MissingEarned /\ Logbook!DefaultUnambiguous

LEMMA BookStarts == Logbook!Init => BookInv
<1>1. ASSUME Logbook!Init
      PROVE  BookInv
  <2>1. op \in Logbook!Ops /\ levels \in past /\ stage = "start" /\ outcome = [kind |-> "none"]
    BY <1>1 DEF Logbook!Init, Logbook!None
  <2>2. levels \in [Logbook!Names -> Logbook!Flags]
    <3>1. CASE op \in {"levels", "search"}
      BY <1>1, <3>1 DEF Logbook!Init
    <3>2. CASE op \notin {"levels", "search"}
      <4>1. levels = [n \in Logbook!Names |-> "plain"]
        BY <1>1, <3>2 DEF Logbook!Init
      <4>2. QED
        BY <4>1 DEF Logbook!Flags
    <3>3. QED
      BY <3>1, <3>2
  <2>3. hits \in Nat
    BY <1>1, Numbers DEF Logbook!Init
  <2>4. ASSUME op = "search"
        PROVE  args.level # {} /\ args.offset \in Nat
    <3>1. args \in Logbook!Searches
      BY <1>1, <2>4 DEF Logbook!Init
    <3>2. args.offset \in Nat /\ args.level \in MCLevelFilters \union {{"none"}}
      BY <3>1 DEF Logbook!Searches, Logbook!NoFilter
    <3>3. {} \notin MCLevelFilters
      BY FS_EmptySet DEF MCLevelFilters
    <3>4. QED
      BY <3>2, <3>3
  <2>5. QED
    BY <2>1, <2>2, <2>3, <2>4 DEF BookInv, BookTyped, Checked, Pending, Logbook!EmptyExplained,
       Logbook!PageHonest, Logbook!MissingEarned, Logbook!DefaultUnambiguous
<1>2. QED
  BY <1>1

(* A page is called capped just when it has a successor.                   *)
LEMMA PageCut ==
  ASSUME BookTyped, op = "search", NEW total
  PROVE  Logbook!Page(total).capped <=> Logbook!Page(total).count < hits - args.offset
<1> DEFINE fetched == Logbook!Least(hits - Logbook!Least(hits, args.offset), PageSize + 1)
           more == fetched > PageSize
           count == Logbook!Least(fetched, PageSize)
<1>1. more <=> count < hits - args.offset
  BY Numbers DEF BookTyped, Logbook!Least
<1>2. Logbook!Page(total) = [count |-> count, total |-> total, capped |-> more]
  BY DEF Logbook!Page
<1> HIDE DEF more, count
<1>3. Logbook!Page(total).count = count
  BY <1>2
<1>4. Logbook!Page(total).capped = more
  BY <1>2
<1>5. QED
  BY <1>1, <1>3, <1>4, Zenon

(* The default that a listing names is flagged alone.                      *)
LEMMA DefaultAlone ==
  ASSUME BookTyped, Logbook!Default(levels) # "none", NEW n \in Logbook!Names
  PROVE  (levels[n] = "default") <=> (n = Logbook!Default(levels))
<1> DEFINE flagged == {k \in Logbook!Names : levels[k] = "default"}
<1>1. Logbook!Cardinality(flagged) = 1 /\ Logbook!Default(levels) = CHOOSE k \in flagged : TRUE
  BY DEF Logbook!Default, Logbook!None
<1>2. Logbook!Cardinality(flagged) = Cardinality(flagged)
  BY DEF Logbook!Cardinality, Cardinality
<1>3. IsFiniteSet(flagged)
  <2>1. IsFiniteSet({"Info"} \union {"Warnign"})
    BY FS_Singleton, FS_Union
  <2>2. flagged \in SUBSET ({"Info"} \union {"Warnign"})
    BY DEF Logbook!Names
  <2>3. QED
    BY <2>1, <2>2, FS_Subset
<1>4. PICK k : flagged = {k}
  BY <1>1, <1>2, <1>3, FS_Singleton
<1>5. Logbook!Default(levels) = k
  BY <1>1, <1>4
<1>6. QED
  BY <1>4, <1>5

(* What the cross-check says of the levels is so at that moment.           *)
LEMMA NotesTrue ==
  ASSUME BookTyped, outcome'.kind = "entries",
         outcome'.note = IF Logbook!UnknownParts(args.level) = {} THEN Logbook!Silent
                         ELSE Logbook!Unknown(Logbook!UnknownParts(args.level)),
         UNCHANGED <<args, past>>
  PROVE  Logbook!EmptyExplained'
<1> DEFINE judged == args.level \ ({""} \union Logbook!Wildcards)
           Lacks(p) == IF p = "INFO" THEN levels["Info"] = "absent"
                       ELSE IF p \in Logbook!Names THEN levels[p] = "absent" ELSE TRUE
           unknown == Logbook!UnknownParts(args.level)
<1>1. \A p : Logbook!Fold(p) \notin Logbook!Configured <=> Lacks(p)
  BY DEF Logbook!Fold, Logbook!Configured, Logbook!Names
<1>2. unknown = {p \in judged : Lacks(p)}
  BY <1>1 DEF Logbook!UnknownParts, Logbook!LevelParts
<1>3. levels \in past'
  BY DEF BookTyped
<1> HIDE DEF Lacks, unknown, judged
<1>4. outcome'.note = IF unknown = {} THEN Logbook!Silent ELSE Logbook!Unknown(unknown)
  BY DEF unknown
<1>5. outcome'.note = Logbook!Silent => \A p \in judged : ~Lacks(p)
  <2>1. CASE unknown = {}
    BY <1>2, <2>1
  <2>2. CASE unknown # {}
    BY <1>4, <2>2 DEF Logbook!Silent, Logbook!Unknown, Logbook!None
  <2>3. QED
    BY <2>1, <2>2
<1>6. outcome'.note.kind = "unknown" => \A p \in outcome'.note.parts : Lacks(p)
  <2>1. CASE unknown = {}
    BY <1>4, <2>1 DEF Logbook!Silent, Logbook!None
  <2>2. CASE unknown # {}
    <3>1. outcome'.note.parts = unknown
      BY <1>4, <2>2 DEF Logbook!Unknown
    <3>2. QED
      BY <1>2, <3>1
  <2>3. QED
    BY <2>1, <2>2
<1>7. QED
  BY <1>3, <1>5, <1>6 DEF Logbook!EmptyExplained, judged, Lacks

LEMMA BookKept ==
  ASSUME BookInv, Logbook!Elsewhere \/ Logbook!Steps
  PROVE  BookInv'
<1>0. /\ BookTyped /\ Checked /\ Pending
      /\ Logbook!EmptyExplained /\ Logbook!PageHonest
      /\ Logbook!MissingEarned /\ Logbook!DefaultUnambiguous
  BY DEF BookInv
<1> DEFINE Honest == /\ Logbook!EmptyExplained /\ Logbook!PageHonest
                     /\ Logbook!MissingEarned /\ Logbook!DefaultUnambiguous
<1>1. ASSUME outcome'.kind \notin {"entries", "entry", "names"}
      PROVE  Honest'
  BY <1>1 DEF Logbook!EmptyExplained, Logbook!PageHonest, Logbook!MissingEarned,
     Logbook!DefaultUnambiguous
<1>2. CASE Logbook!Elsewhere
  <2>1. /\ outcome = [kind |-> "none"] /\ levels' \in past'
        /\ levels' \in [Logbook!Names -> Logbook!Flags]
        /\ UNCHANGED <<op, args, hits, entry, stage, page, outcome>>
    BY <1>0, <1>2 DEF Logbook!Elsewhere, Logbook!inputs, Logbook!Flags, BookTyped
  <2>2. Honest'
    BY <1>1, <2>1
  <2>3. QED
    BY <1>0, <2>1, <2>2 DEF BookInv, BookTyped, Checked, Pending
<1>3. CASE Logbook!Start
  <2>1. /\ UNCHANGED <<op, args, levels, past, hits, entry, page>>
        /\ outcome'.kind \in {"none", "error", "disabled"}
        /\ stage' \in {"get", "done"}
        /\ stage' = "get" => outcome' = outcome
    BY <1>0, <1>3 DEF Logbook!Start, Logbook!inputs, Logbook!Finish, Logbook!Err, BookTyped
  <2>2. Checked'
    BY <1>0, <1>3, <2>1 DEF Logbook!Start, Logbook!Finish, Logbook!LevelBlank, Checked
  <2>3. Honest'
    BY <1>1, <2>1
  <2>4. QED
    BY <1>0, <1>3, <2>1, <2>2, <2>3 DEF Logbook!Start, BookInv, BookTyped, Pending
<1>4. CASE Logbook!Unreadable
  <2>1. /\ stage' = "done" /\ outcome'.kind = "error"
        /\ UNCHANGED <<op, args, levels, past, hits, entry, page>>
    BY <1>4 DEF Logbook!Unreadable, Logbook!Finish, Logbook!inputs, Logbook!Err
  <2>2. Honest'
    BY <1>1, <2>1
  <2>3. QED
    BY <1>0, <2>1, <2>2 DEF BookInv, BookTyped, Checked, Pending
<1>5. CASE Logbook!Search
  <2>1. PICK total \in {hits, Logbook!NoTotal} :
          /\ page' = Logbook!Page(total)
          /\ IF /\ args.level # Logbook!NoFilter /\ Logbook!Page(total).count = 0
                /\ total \in {0, Logbook!NoTotal}
               THEN stage' = "levels" /\ UNCHANGED outcome
               ELSE Logbook!Finish(Logbook!Found(Logbook!Page(total), Logbook!Silent))
    BY <1>5 DEF Logbook!Search
  <2>2. /\ stage = "get" /\ op = "search"
        /\ UNCHANGED <<op, args, levels, past, hits, entry>>
    BY <1>5 DEF Logbook!Search, Logbook!inputs
  <2>3. page'.capped <=> page'.count < hits - args.offset
    BY <1>0, <2>1, <2>2, PageCut
  <2>4. CASE stage' = "levels" /\ UNCHANGED outcome /\ args.level # Logbook!NoFilter
    <3>1. Honest'
      BY <1>0, <1>1, <2>2, <2>4 DEF BookTyped
    <3>2. QED
      BY <1>0, <2>2, <2>3, <2>4, <3>1 DEF BookInv, BookTyped, Checked, Pending
  <2>5. CASE /\ Logbook!Finish(Logbook!Found(Logbook!Page(total), Logbook!Silent))
             /\ \/ args.level = Logbook!NoFilter
                \/ Logbook!Page(total).count # 0
                \/ Logbook!Page(total).total \notin {0, Logbook!NoTotal}
    <3>1. /\ outcome'.kind = "entries" /\ outcome'.page = page' /\ stage' = "done"
          /\ outcome'.note = Logbook!Silent
      BY <2>1, <2>5 DEF Logbook!Finish, Logbook!Found
    <3>2. Logbook!PageHonest'
      BY <2>2, <2>3, <3>1 DEF Logbook!PageHonest
    <3>3. Logbook!EmptyExplained'
      <4>1. outcome'.note.kind # "unknown"
        BY <3>1 DEF Logbook!Silent, Logbook!None
      <4>2. \/ args'.level = Logbook!NoFilter \/ outcome'.page.count # 0
            \/ outcome'.page.total \notin {0, Logbook!NoTotal}
        BY <2>1, <2>2, <2>5, <3>1
      <4>3. QED
        BY <4>1, <4>2 DEF Logbook!EmptyExplained
    <3>4. QED
      BY <1>0, <2>2, <3>1, <3>2, <3>3 DEF BookInv, BookTyped, Checked, Pending,
         Logbook!MissingEarned, Logbook!DefaultUnambiguous
  <2>6. Logbook!Page(total).total = total
    BY DEF Logbook!Page
  <2>7. QED
    BY <2>1, <2>4, <2>5, <2>6
<1>6. CASE Logbook!CrossCheck
  <2>1. /\ stage = "levels" /\ stage' = "done"
        /\ UNCHANGED <<op, args, levels, past, hits, entry, page>>
    BY <1>6 DEF Logbook!CrossCheck, Logbook!Finish, Logbook!inputs
  <2>2. BookTyped' /\ Checked' /\ Pending'
    BY <1>0, <2>1 DEF BookTyped, Checked, Pending
  <2>3. CASE outcome' = Logbook!Err("READ_RATE_LIMIT_EXCEEDED")
    BY <1>1, <2>2, <2>3 DEF Logbook!Err, BookInv
  <2>4. CASE outcome' = Logbook!Found(page, Logbook!Unverified)
    BY <1>0, <2>1, <2>2, <2>4 DEF Logbook!Found, Logbook!Unverified, Logbook!Silent,
       Logbook!None, BookInv, Pending, Logbook!EmptyExplained, Logbook!PageHonest,
       Logbook!MissingEarned, Logbook!DefaultUnambiguous
  <2>5. CASE outcome' = Logbook!Found(page,
               IF Logbook!UnknownParts(args.level) = {} THEN Logbook!Silent
               ELSE Logbook!Unknown(Logbook!UnknownParts(args.level)))
    <3>1. /\ outcome'.kind = "entries" /\ outcome'.page = page'
          /\ outcome'.note = IF Logbook!UnknownParts(args.level) = {} THEN Logbook!Silent
                             ELSE Logbook!Unknown(Logbook!UnknownParts(args.level))
      BY <2>1, <2>5 DEF Logbook!Found
    <3>2. Logbook!EmptyExplained'
      BY <1>0, <2>1, <3>1, NotesTrue
    <3>3. Logbook!PageHonest'
      BY <1>0, <2>1, <3>1 DEF Logbook!PageHonest, Pending
    <3>4. QED
      BY <2>2, <3>1, <3>2, <3>3 DEF BookInv, Logbook!MissingEarned, Logbook!DefaultUnambiguous
  <2>6. QED
    BY <1>6, <2>3, <2>4, <2>5 DEF Logbook!CrossCheck, Logbook!Finish
<1>7. CASE Logbook!Entry
  <2>1. /\ stage = "get" /\ stage' = "done" /\ op \in {"entry", "attachments"}
        /\ UNCHANGED <<op, args, levels, past, hits, entry, page>>
        /\ \/ outcome' = [kind |-> "entry", found |-> entry = "whole"]
           \/ outcome' = Logbook!Err("OLOG_HTTP")
    BY <1>7 DEF Logbook!Entry, Logbook!Finish, Logbook!inputs
  <2>2. BookTyped' /\ Checked' /\ Pending'
    BY <1>0, <2>1 DEF BookTyped, Checked, Pending
  <2>3. CASE outcome' = Logbook!Err("OLOG_HTTP")
    BY <1>1, <2>2, <2>3 DEF Logbook!Err, BookInv
  <2>4. CASE outcome' = [kind |-> "entry", found |-> entry = "whole"]
    <3>1. outcome'.kind = "entry" /\ outcome'.found = (entry = "whole")
      BY <2>4
    <3>2. Logbook!MissingEarned'
      BY <2>1, <3>1, Zenon DEF Logbook!MissingEarned
    <3>3. QED
      BY <2>2, <3>1, <3>2 DEF BookInv, Logbook!EmptyExplained, Logbook!PageHonest,
         Logbook!DefaultUnambiguous
  <2>5. QED
    BY <2>1, <2>3, <2>4
<1>8. CASE Logbook!List
  <2>1. /\ stage' = "done" /\ outcome'.kind = "names"
        /\ outcome'.default = IF op = "levels" THEN Logbook!Default(levels) ELSE Logbook!None
        /\ UNCHANGED <<op, args, levels, past, hits, entry, page>>
    BY <1>8 DEF Logbook!List, Logbook!Finish, Logbook!inputs
  <2>2. BookTyped' /\ Checked' /\ Pending'
    BY <1>0, <2>1 DEF BookTyped, Checked, Pending
  <2>3. Logbook!DefaultUnambiguous'
    BY <1>0, <2>1, DefaultAlone DEF Logbook!DefaultUnambiguous, Logbook!None
  <2>4. QED
    BY <2>1, <2>2, <2>3 DEF BookInv, Logbook!EmptyExplained, Logbook!PageHonest,
       Logbook!MissingEarned
<1>9. CASE Logbook!Fetch
  <2>1. /\ op = "download" /\ stage' \in {"write", "done"}
        /\ UNCHANGED <<op, args, levels, past, hits, entry, page>>
        /\ stage' = "write" => outcome' = outcome
        /\ outcome'.kind \in {"error", "downloaded", "none"}
    BY <1>0, <1>9 DEF Logbook!Fetch, Logbook!Finish, Logbook!inputs, Logbook!Err, BookTyped
  <2>2. Honest'
    BY <1>1, <2>1
  <2>3. QED
    BY <1>0, <1>9, <2>1, <2>2 DEF Logbook!Fetch, BookInv, BookTyped, Checked, Pending
<1>10. CASE Logbook!Write
  <2>1. /\ stage' = "done" /\ outcome'.kind \in {"error", "downloaded"}
        /\ UNCHANGED <<op, args, levels, past, hits, entry, page>>
    BY <1>10 DEF Logbook!Write, Logbook!Finish, Logbook!inputs, Logbook!Err
  <2>2. Honest'
    BY <1>1, <2>1
  <2>3. QED
    BY <1>0, <2>1, <2>2 DEF BookInv, BookTyped, Checked, Pending
<1>11. QED
  BY <1>2, <1>3, <1>4, <1>5, <1>6, <1>7, <1>8, <1>9, <1>10 DEF Logbook!Steps

(* Every step leaves all parts but one as they are.                        *)
LEMMA OneAtATime ==
  ASSUME [Next]_vars
  PROVE  /\ Transport!Next \/ UNCHANGED transportVars
         /\ Windows!Next \/ UNCHANGED windowVars
         /\ Channels!Next \/ UNCHANGED channelVars
         /\ Planes!Drift \/ Planes!Steps \/ UNCHANGED planeVars
         /\ Logbook!Elsewhere \/ Logbook!Steps \/ UNCHANGED logbookVars
BY DEF Next, vars, TransportStep, WindowStep, ChannelStep, PlaneDrift, PlaneStep,
   LogbookDrift, LogbookStep

LEMMA BookInvariant == FairSpec => []BookInv
<1>1. Init => BookInv
  BY BookStarts DEF Init
<1>2. BookInv /\ [Next]_vars => BookInv'
  <2>1. ASSUME BookInv, UNCHANGED logbookVars
        PROVE  BookInv'
    <3>1. UNCHANGED <<op, args, levels, past, hits, entry, stage, page, outcome>>
      BY <2>1 DEF logbookVars
    <3>2. BookTyped' /\ Checked' /\ Pending'
      BY <2>1, <3>1 DEF BookInv, BookTyped, Checked, Pending
    <3>3. Logbook!EmptyExplained'
      BY <2>1, <3>1 DEF BookInv, Logbook!EmptyExplained
    <3>4. Logbook!PageHonest' /\ Logbook!MissingEarned' /\ Logbook!DefaultUnambiguous'
      BY <2>1, <3>1 DEF BookInv, Logbook!PageHonest, Logbook!MissingEarned,
         Logbook!DefaultUnambiguous
    <3>5. QED
      BY <3>2, <3>3, <3>4 DEF BookInv
  <2>2. QED
    BY <2>1, BookKept, OneAtATime
<1>3. QED
  BY <1>1, <1>2, PTL DEF FairSpec

(* A search by levels that found nothing says which of them do not exist,  *)
(* and only of such as do not, though the levels may change between its    *)
(* two requests (_unknown_level_note).                                     *)
THEOREM EmptyIsExplained == FairSpec => []EmptyExplained
<1>1. BookInv => EmptyExplained
  BY DEF BookInv, EmptyExplained
<1>2. QED
  BY <1>1, BookInvariant, PTL

(* Whenever someone else's file comes to be at the path of a download, it  *)
(* is not written over (write_download).                                   *)
THEOREM TheirsAreKept == FairSpec => TheirsIsKept
<1>1. ASSUME [Next]_vars, file = "theirs"
      PROVE  file' = "theirs"
  <2>1. CASE UNCHANGED logbookVars
    BY <1>1, <2>1 DEF logbookVars
  <2>2. CASE Logbook!Elsewhere
    BY <1>1, <2>2 DEF Logbook!Elsewhere
  <2>3. CASE Logbook!Steps
    BY <1>1, <2>3 DEF Logbook!Steps, Logbook!Start, Logbook!Unreadable, Logbook!Search,
       Logbook!CrossCheck, Logbook!Entry, Logbook!List, Logbook!Fetch, Logbook!Write
  <2>4. QED
    BY <1>1, <2>1, <2>2, <2>3, OneAtATime
<1>2. [Next]_vars => [file = "theirs" => file' = "theirs"]_(Logbook!vars)
  BY <1>1
<1>3. QED
  BY <1>2, PTL DEF FairSpec, TheirsIsKept, Logbook!TheirsIsKept
-----------------------------------------------------------------------------
(* A plane and a call to it; no request got no readable answer before the  *)
(* call ended.                                                             *)
PlaneTyped ==
  /\ tool \in Planes!Tools /\ host \in {"own", "foreign"} /\ failed \in BOOLEAN
  /\ truth \in moments /\ moments \subseteq Planes!Truths(tool)
  /\ at # "done" => answer = Planes!NoAnswer /\ failed = FALSE

(* What the requests so far have established.                              *)
PlaneCourse ==
  /\ at = "identity" => tool = "naming" /\ (host = "own" => "absent" \in moments)
  /\ at = "tree" => tool = "alarm" /\ (host = "own" => moments # {"configured"})
  /\ at = "tags" =>
       /\ tool = "vocabulary"
       /\ host = "own" => \E t \in moments : listed = t.props \intersect Planes!SafeProperties

Earned == Planes!NegativeEarned /\ Planes!PositiveEarned /\ Planes!ListHonest

PlaneInv == PlaneTyped /\ PlaneCourse /\ Earned /\ Planes!FailureNeverAnswers

LEMMA PlaneStarts == Planes!Init => PlaneInv
<1>1. ASSUME Planes!Init
      PROVE  PlaneInv
  <2>1. PlaneTyped /\ at = "start" /\ failed = FALSE /\ answer.kind = "none"
    BY <1>1 DEF Planes!Init, PlaneTyped, Planes!NoAnswer
  <2>2. QED
    BY <2>1 DEF PlaneInv, PlaneCourse, Earned, Planes!NegativeEarned, Planes!PositiveEarned,
       Planes!Said, Planes!ListHonest, Planes!FailureNeverAnswers
<1>2. QED
  BY <1>1

LEMMA NothingSaid ==
  ASSUME answer'.kind \notin {"verdict", "list", "vocabulary"}
  PROVE  Earned'
BY DEF Earned, Planes!NegativeEarned, Planes!PositiveEarned, Planes!Said, Planes!ListHonest

(* A request that got no readable answer ends the call.                    *)
LEMMA RequestFails ==
  ASSUME PlaneInv, UNCHANGED <<tool, host, truth, moments>>,
         Planes!Withhold \/ \E S \in SUBSET Planes!Raises : Planes!Unreadable(S)
  PROVE  PlaneInv'
<1>1. at' = "done" /\ failed' = TRUE /\ answer'.kind \in {"error", "withheld"}
  BY DEF Planes!Withhold, Planes!Unreadable, Planes!Raises, Planes!ErrorOf, Planes!Error,
     Planes!Done, Planes!Withheld
<1>2. QED
  BY <1>1, NothingSaid DEF PlaneInv, PlaneTyped, PlaneCourse, Planes!FailureNeverAnswers

(* One that got one, and what is made of it.                               *)
LEMMA RequestAnswered ==
  ASSUME PlaneInv, at # "done", UNCHANGED <<tool, host, truth, moments>>,
         NEW a, Planes!Readable(a), Earned'
  PROVE  PlaneInv'
BY DEF PlaneInv, PlaneTyped, PlaneCourse, Planes!FailureNeverAnswers, Planes!Readable, Planes!Done

LEMMA RequestGoesOn ==
  ASSUME PlaneInv, at # "done", UNCHANGED <<tool, host, truth, moments>>,
         NEW next, next # "done", Planes!Onward(next), PlaneCourse'
  PROVE  PlaneInv'
<1>1. answer'.kind = "none" /\ failed' = FALSE /\ at' # "done" /\ answer' = answer
  BY DEF PlaneInv, PlaneTyped, Planes!Onward, Planes!NoAnswer
<1>2. QED
  BY <1>1, NothingSaid DEF PlaneInv, PlaneTyped, Planes!FailureNeverAnswers

(* A yes or no that was so when it was given stays earned.                 *)
LEMMA VerdictGiven ==
  ASSUME NEW yes \in BOOLEAN, NEW status, answer' = Planes!Verdict(yes, status),
         ~yes => /\ tool' = "naming" => IF status = "" THEN host' = "own" /\ "absent" \in moments'
                                        ELSE host' = "own" => status \in moments'
                 /\ tool' = "archived" => host' = "own" /\ "paused" \in moments'
                 /\ tool' = "alarm" => host' = "own" /\ moments' # {"configured"},
         yes => /\ tool' = "naming" => (host' = "own" => "ACTIVE" \in moments')
                /\ tool' = "archived" => host' = "own" /\ "archiving" \in moments'
                /\ tool' = "info" => host' = "own" /\ "record" \in moments'
                /\ tool' = "appliance" => host' = "own"
                /\ tool' = "alarm" => host' = "own" /\ "configured" \in moments'
  PROVE  Earned'
<1>1. answer'.kind = "verdict" /\ answer'.status = status
  BY DEF Planes!Verdict
<1>2. answer'.yes = yes
  BY DEF Planes!Verdict
<1>3. CASE yes = TRUE
  <2>1. answer'.yes = TRUE
    BY <1>2, <1>3
  <2>2. QED
    BY <1>1, <1>3, <2>1 DEF Earned, Planes!NegativeEarned, Planes!PositiveEarned, Planes!Said,
       Planes!ListHonest
<1>4. CASE yes = FALSE
  <2>1. answer'.yes = FALSE
    BY <1>2, <1>4
  <2>2. QED
    BY <1>1, <1>4, <2>1 DEF Earned, Planes!NegativeEarned, Planes!PositiveEarned, Planes!Said,
       Planes!ListHonest
<1>5. QED
  BY <1>3, <1>4

LEMMA VerdictsKept ==
  ASSUME PlaneInv,
         \/ Planes!NamingHead \/ Planes!NamingGet \/ Planes!NamingIdentity
         \/ Planes!ArchivedGet \/ Planes!InfoGet \/ Planes!ApplianceGet
         \/ Planes!AlarmGet \/ Planes!AlarmTree
  PROVE  PlaneInv'
<1>1. PlaneTyped /\ PlaneCourse
  BY DEF PlaneInv
<1>2. ASSUME NEW t, NEW point, point # "done", Planes!Request(t, point)
      PROVE  /\ tool = t /\ at = point /\ at # "done"
             /\ UNCHANGED <<tool, host, truth, moments>>
  BY <1>2 DEF Planes!Request, Planes!callVars
<1>3. CASE Planes!NamingHead
  <2>1. /\ tool = "naming" /\ at = "head" /\ UNCHANGED <<tool, host, truth, moments>>
        /\ Planes!Onward("get") \/ Planes!Withhold
    BY <1>2, <1>3 DEF Planes!NamingHead
  <2>2. CASE Planes!Withhold
    BY <2>1, <2>2, RequestFails
  <2>3. CASE Planes!Onward("get")
    <3>1. PlaneCourse'
      BY <2>3 DEF Planes!Onward, PlaneCourse
    <3>2. QED
      BY <2>1, <2>3, <3>1, RequestGoesOn
  <2>4. QED
    BY <2>1, <2>2, <2>3
<1>4. CASE Planes!NamingGet
  <2>1. tool = "naming" /\ at = "get" /\ UNCHANGED <<tool, host, truth, moments>>
    BY <1>2, <1>4 DEF Planes!NamingGet
  <2>2. CASE Planes!Withhold \/ Planes!Unreadable({"limited"})
    BY <2>1, <2>2, RequestFails DEF Planes!Raises
  <2>3. CASE Planes!NotThere /\ Planes!Onward("identity")
    <3>1. PlaneCourse'
      BY <1>1, <2>1, <2>3 DEF Planes!Onward, PlaneCourse, Planes!NotThere, PlaneTyped
    <3>2. QED
      BY <2>1, <2>3, <3>1, RequestGoesOn
  <2>4. CASE \E status \in Planes!Records :
               Planes!Readable(Planes!Verdict(status = "ACTIVE", status))
    <3>1. PICK status \in Planes!Records :
                 Planes!Readable(Planes!Verdict(status = "ACTIVE", status))
      BY <2>4
    <3>2. status \in Planes!Statuses /\ (host' = "own" => status \in moments')
      BY <1>1, <2>1 DEF Planes!Records, PlaneTyped
    <3> DEFINE yes == status = "ACTIVE"
    <3>3. answer' = Planes!Verdict(yes, status) /\ yes \in BOOLEAN /\ status # ""
      BY <3>1, <3>2 DEF Planes!Readable, Planes!Done, Planes!Statuses
    <3>4. yes => status = "ACTIVE"
      OBVIOUS
    <3> HIDE DEF yes
    <3>5. Earned'
      BY <2>1, <3>2, <3>3, <3>4, VerdictGiven
    <3>6. QED
      BY <2>1, <3>1, <3>5, RequestAnswered
  <2>5. QED
    BY <1>4, <2>2, <2>3, <2>4 DEF Planes!NamingGet
<1>5. CASE Planes!NamingIdentity
  <2>1. /\ tool = "naming" /\ at = "identity" /\ UNCHANGED <<tool, host, truth, moments>>
        /\ \/ Planes!Verified /\ Planes!Readable(Planes!Verdict(FALSE, ""))
           \/ Planes!Withhold
    BY <1>2, <1>5 DEF Planes!NamingIdentity
  <2>2. CASE Planes!Withhold
    BY <2>1, <2>2, RequestFails
  <2>3. CASE Planes!Verified /\ Planes!Readable(Planes!Verdict(FALSE, ""))
    <3>1. answer' = Planes!Verdict(FALSE, "") /\ host = "own" /\ "absent" \in moments
      BY <1>1, <2>1, <2>3 DEF Planes!Readable, Planes!Done, Planes!Verified, PlaneCourse
    <3>2. Earned'
      BY <2>1, <3>1, VerdictGiven
    <3>3. QED
      BY <2>1, <2>3, <3>2, RequestAnswered
  <2>4. QED
    BY <2>1, <2>2, <2>3
<1>6. CASE Planes!ArchivedGet
  <2>1. /\ tool = "archived" /\ at = "get" /\ UNCHANGED <<tool, host, truth, moments>>
        /\ \/ Planes!Unreadable(Planes!Raises)
           \/ host = "own" /\ Planes!Readable(Planes!ArchivedAnswer)
    BY <1>2, <1>6 DEF Planes!ArchivedGet
  <2>2. CASE Planes!Unreadable(Planes!Raises)
    BY <2>1, <2>2, RequestFails
  <2>3. CASE host = "own" /\ Planes!Readable(Planes!ArchivedAnswer)
    <3> DEFINE yes == truth = "archiving"
    <3>1. answer' = Planes!Verdict(yes, truth) /\ yes \in BOOLEAN /\ (yes <=> truth = "archiving")
      BY <2>3 DEF Planes!Readable, Planes!Done, Planes!ArchivedAnswer
    <3>2. truth \in moments /\ truth \in {"archiving", "paused"}
      BY <1>1, <2>1 DEF PlaneTyped, Planes!Truths
    <3> HIDE DEF yes
    <3>3. Earned'
      BY <2>1, <2>3, <3>1, <3>2, VerdictGiven
    <3>4. QED
      BY <2>1, <2>3, <3>3, RequestAnswered
  <2>4. QED
    BY <2>1, <2>2, <2>3
<1>7. CASE Planes!InfoGet
  <2>1. tool = "info" /\ at = "get" /\ UNCHANGED <<tool, host, truth, moments>>
    BY <1>2, <1>7 DEF Planes!InfoGet
  <2>2. CASE Planes!Unreadable(Planes!Raises)
    BY <2>1, <2>2, RequestFails
  <2>3. ASSUME NEW found \in BOOLEAN, Planes!Readable(Planes!InfoAnswer(found)),
               found => host = "own" /\ truth = "record"
        PROVE  PlaneInv'
    <3>1. answer' = Planes!Verdict(found, "") /\ truth \in moments
      BY <1>1, <2>3 DEF Planes!Readable, Planes!Done, Planes!InfoAnswer, PlaneTyped
    <3>2. Earned'
      BY <2>1, <2>3, <3>1, VerdictGiven
    <3>3. QED
      BY <2>1, <2>3, <3>2, RequestAnswered
  <2>4. QED
    BY <1>7, <2>2, <2>3 DEF Planes!InfoGet
<1>8. CASE Planes!ApplianceGet
  <2>1. /\ tool = "appliance" /\ at = "get" /\ UNCHANGED <<tool, host, truth, moments>>
        /\ \/ Planes!Unreadable(Planes!Raises)
           \/ host = "own" /\ Planes!Readable(Planes!ApplianceAnswer)
    BY <1>2, <1>8 DEF Planes!ApplianceGet
  <2>2. CASE Planes!Unreadable(Planes!Raises)
    BY <2>1, <2>2, RequestFails
  <2>3. CASE host = "own" /\ Planes!Readable(Planes!ApplianceAnswer)
    <3>1. answer' = Planes!Verdict(TRUE, truth)
      BY <2>3 DEF Planes!Readable, Planes!Done, Planes!ApplianceAnswer
    <3>2. Earned'
      BY <2>1, <2>3, <3>1, VerdictGiven
    <3>3. QED
      BY <2>1, <2>3, <3>2, RequestAnswered
  <2>4. QED
    BY <2>1, <2>2, <2>3
<1>9. CASE Planes!AlarmGet
  <2>1. tool = "alarm" /\ at = "get" /\ UNCHANGED <<tool, host, truth, moments>>
    BY <1>2, <1>9 DEF Planes!AlarmGet
  <2>2. CASE Planes!Unreadable(Planes!Raises)
    BY <2>1, <2>2, RequestFails
  <2>3. CASE Planes!AlarmHit /\ Planes!Readable(Planes!Verdict(TRUE, "leaf"))
    <3>1. answer' = Planes!Verdict(TRUE, "leaf") /\ host = "own" /\ "configured" \in moments
      BY <1>1, <2>3 DEF Planes!Readable, Planes!Done, Planes!AlarmHit, PlaneTyped
    <3>2. Earned'
      BY <2>1, <3>1, VerdictGiven
    <3>3. QED
      BY <2>1, <2>3, <3>2, RequestAnswered
  <2>4. CASE ~Planes!AlarmHit /\ Planes!Onward("tree")
    <3>1. PlaneCourse'
      BY <1>1, <2>1, <2>4 DEF Planes!Onward, PlaneCourse, Planes!AlarmHit, PlaneTyped
    <3>2. QED
      BY <2>1, <2>4, <3>1, RequestGoesOn
  <2>5. QED
    BY <1>9, <2>2, <2>3, <2>4 DEF Planes!AlarmGet
<1>10. CASE Planes!AlarmTree
  <2>1. tool = "alarm" /\ at = "tree" /\ UNCHANGED <<tool, host, truth, moments>>
    BY <1>2, <1>10 DEF Planes!AlarmTree
  <2>2. CASE Planes!Unreadable(Planes!Raises \ {"junk"}) \/ Planes!Withhold
    BY <2>1, <2>2, RequestFails
  <2>3. CASE Planes!TreeAnswers /\ Planes!Readable(Planes!Verdict(FALSE, "tree"))
    <3>1. /\ answer' = Planes!Verdict(FALSE, "tree")
          /\ host = "own" /\ moments # {"configured"}
      BY <1>1, <2>1, <2>3 DEF Planes!Readable, Planes!Done, Planes!TreeAnswers, PlaneCourse
    <3>2. Earned'
      BY <2>1, <3>1, VerdictGiven
    <3>3. QED
      BY <2>1, <2>3, <3>2, RequestAnswered
  <2>4. CASE ~Planes!TreeAnswers /\ Planes!Readable(Planes!Withheld)
    <3>1. Earned'
      BY <2>4, NothingSaid DEF Planes!Readable, Planes!Done, Planes!Withheld
    <3>2. QED
      BY <2>1, <2>4, <3>1, RequestAnswered
  <2>5. QED
    BY <1>10, <2>2, <2>3, <2>4 DEF Planes!AlarmTree
<1>11. QED
  BY <1>3, <1>4, <1>5, <1>6, <1>7, <1>8, <1>9, <1>10

(* A list cut at the limit, of a plane that held the number then.          *)
LEMMA ListCut ==
  ASSUME NEW n \in Nat, answer' = Planes!Cut(n), tool' # "alarms",
         host' = "own" => /\ n > Limit => \E t \in moments' : t > Limit
                          /\ n <= Limit => n \in moments'
  PROVE  Earned'
<1> DEFINE more == n > Limit
<1>1. answer' = Planes!Listing(IF n < Limit THEN n ELSE Limit, more)
  BY DEF Planes!Cut
<1>2. more \in BOOLEAN /\ (more <=> n > Limit)
  OBVIOUS
<1> HIDE DEF more
<1>3. /\ answer'.kind = "list" /\ answer'.capped = more
      /\ answer'.total = IF n < Limit THEN n ELSE Limit
  BY <1>1 DEF Planes!Listing
<1>4. CASE more = TRUE
  <2>1. answer'.capped = TRUE
    BY <1>3, <1>4
  <2>2. host' = "own" => \E t \in moments' : t > Limit
    BY <1>2, <1>4
  <2>3. QED
    BY <1>3, <2>1, <2>2 DEF Earned, Planes!NegativeEarned, Planes!PositiveEarned, Planes!Said,
       Planes!ListHonest
<1>5. CASE more = FALSE
  <2>1. answer'.capped = FALSE
    BY <1>3, <1>5
  <2>2. answer'.total = n /\ (host' = "own" => n \in moments')
    BY <1>2, <1>3, <1>5, Numbers
  <2>3. QED
    BY <1>3, <2>1, <2>2 DEF Earned, Planes!NegativeEarned, Planes!PositiveEarned, Planes!Said,
       Planes!ListHonest, Planes!Held
<1>6. QED
  BY <1>2, <1>4, <1>5

(* A page of documents, of which as many are of the configuration as have  *)
(* that kind.                                                              *)
LEMMA ConfigsCounted ==
  ASSUME NEW docs, Len(docs) \in Nat
  PROVE  Planes!Configs(docs) \in Nat /\ Planes!Configs(docs) <= Len(docs)
<1> DEFINE configs == {i \in 1 .. Len(docs) : docs[i] = "config"}
<1>1. IsFiniteSet(1 .. Len(docs)) /\ Cardinality(1 .. Len(docs)) = Len(docs)
  <2> DEFINE n == Len(docs)
  <2>1. 1 \in Int /\ n \in Int /\ n \in Nat
    OBVIOUS
  <2> HIDE DEF n
  <2>2. IsFiniteSet(1 .. n) /\ Cardinality(1 .. n) = IF 1 > n THEN 0 ELSE n - 1 + 1
    BY <2>1, FS_Interval
  <2>3. QED
    BY <2>1, <2>2 DEF n
<1>2. configs \in SUBSET (1 .. Len(docs))
  OBVIOUS
<1>3. IsFiniteSet(configs) /\ Cardinality(configs) <= Len(docs)
  BY <1>1, <1>2, FS_Subset
<1>4. Planes!Configs(docs) = Cardinality(configs)
  BY DEF Planes!Configs, Planes!Cardinality, Cardinality
<1>5. QED
  BY <1>3, <1>4, FS_CardinalityType

LEMMA AlarmsCut ==
  ASSUME NEW docs, docs \in Seq({"state", "config"}), answer' = Planes!Alarms(Planes!Page(docs)),
         argument' = argument, tool' = "alarms", docs \in moments'
  PROVE  Earned'
<1> DEFINE shown == Planes!Page(docs)
           kept == IF argument = "command" THEN Planes!Configs(shown) ELSE Len(shown)
           more == Len(shown) > Limit \/ kept > Limit
<1>1. Len(docs) \in Nat
  BY LenProperties
<1>2. /\ Len(shown) \in Nat
      /\ Len(shown) <= Limit => shown = docs
      /\ Len(shown) > Limit => Len(docs) > Limit
  <2> DEFINE size == IF EsMax < Limit + 1 THEN EsMax ELSE Limit + 1
  <2>1. size = Limit + 1
    BY Numbers
  <2>2. shown = IF Len(docs) <= Limit + 1 THEN docs ELSE SubSeq(docs, 1, Limit + 1)
    BY <2>1 DEF Planes!Page
  <2>3. CASE Len(docs) <= Limit + 1
    BY <1>1, <2>2, <2>3, Numbers
  <2>4. CASE ~(Len(docs) <= Limit + 1)
    <3>1. \A i \in 1 .. Limit + 1 : docs[i] \in {"state", "config"}
      BY <1>1, <2>4, Numbers, ElementOfSeq
    <3>2. Len(SubSeq(docs, 1, Limit + 1)) = Limit + 1
      BY <3>1, Numbers, SubSeqProperties
    <3>3. QED
      BY <1>1, <2>2, <2>4, <3>2, Numbers
  <2>5. QED
    BY <2>3, <2>4
<1>3. kept \in Nat /\ kept <= Len(shown)
  BY <1>2, ConfigsCounted
<1>4. answer' = Planes!Listing(IF kept < Limit THEN kept ELSE Limit, more)
  BY DEF Planes!Alarms
<1>5. more \in BOOLEAN /\ (more <=> Len(shown) > Limit)
  BY <1>2, <1>3, Numbers
<1>6. ~more => shown = docs /\ kept <= Limit
  BY <1>2, <1>3, <1>5, Numbers
<1>7. shown = docs => kept = Planes!Held(docs)'
  BY DEF Planes!Held, Planes!Configs
<1> HIDE DEF more, kept, shown
<1>8. /\ answer'.kind = "list" /\ answer'.capped = more
      /\ answer'.total = IF kept < Limit THEN kept ELSE Limit
  BY <1>4 DEF Planes!Listing
<1>9. CASE more = TRUE
  <2>1. answer'.capped = TRUE /\ Len(docs) > Limit
    BY <1>2, <1>5, <1>8, <1>9
  <2>2. QED
    BY <1>8, <2>1 DEF Earned, Planes!NegativeEarned, Planes!PositiveEarned, Planes!Said,
       Planes!ListHonest
<1>10. CASE more = FALSE
  <2>1. answer'.capped = FALSE
    BY <1>8, <1>10
  <2>2. answer'.total = Planes!Held(docs)'
    BY <1>3, <1>6, <1>7, <1>8, <1>10, Numbers
  <2>3. QED
    BY <1>8, <2>1, <2>2 DEF Earned, Planes!NegativeEarned, Planes!PositiveEarned, Planes!Said,
       Planes!ListHonest
<1>11. QED
  BY <1>5, <1>9, <1>10

LEMMA ListsKept ==
  ASSUME PlaneInv,
         \/ Planes!NamesGet \/ Planes!HistoryGet \/ Planes!AlarmsGet
         \/ Planes!VocabularyGet \/ Planes!TagsGet
  PROVE  PlaneInv'
<1>1. PlaneTyped /\ PlaneCourse
  BY DEF PlaneInv
<1>2. ASSUME NEW t, NEW point, point # "done", Planes!Request(t, point)
      PROVE  /\ tool = t /\ at = point /\ at # "done"
             /\ UNCHANGED <<tool, argument, host, truth, moments>>
  BY <1>2 DEF Planes!Request, Planes!callVars
<1>3. CASE Planes!NamesGet
  <2>1. tool = "names" /\ at = "get" /\ UNCHANGED <<tool, host, truth, moments>>
    BY <1>2, <1>3 DEF Planes!NamesGet
  <2>2. CASE Planes!Unreadable(Planes!Raises)
    BY <2>1, <2>2, RequestFails
  <2>3. CASE \E n \in Planes!Fetched : Planes!Readable(Planes!NamesAnswer(n))
    <3>1. PICK n \in Planes!Fetched : Planes!Readable(Planes!NamesAnswer(n))
      BY <2>3
    <3>2. truth \in Nat /\ truth \in moments
      BY <1>1, <2>1, Numbers DEF PlaneTyped, Planes!Truths
    <3>3. n \in Nat /\ (host = "own" => n = truth \/ (n = Limit + 1 /\ truth > Limit))
      <4>1. CASE host = "foreign"
        BY <4>1 DEF Planes!Fetched
      <4>2. CASE host # "foreign"
        <5>1. n \in {truth, IF truth < Limit + 1 THEN truth ELSE Limit + 1}
          BY <4>2 DEF Planes!Fetched
        <5>2. n = truth \/ (n = Limit + 1 /\ ~(truth < Limit + 1))
          BY <5>1
        <5>3. QED
          BY <3>2, <5>2, Numbers
      <4>3. QED
        BY <4>1, <4>2
    <3>4. host = "own" => /\ n > Limit => truth > Limit
                          /\ n <= Limit => n = truth
      BY <3>2, <3>3, Numbers
    <3>5. answer' = Planes!Cut(n)
      BY <3>1 DEF Planes!Readable, Planes!Done, Planes!NamesAnswer
    <3>6. Earned'
      BY <2>1, <3>2, <3>3, <3>4, <3>5, ListCut
    <3>7. QED
      BY <2>1, <3>1, <3>6, RequestAnswered
  <2>4. QED
    BY <1>3, <2>2, <2>3 DEF Planes!NamesGet
<1>4. CASE Planes!HistoryGet
  <2>1. tool = "history" /\ at = "get" /\ UNCHANGED <<tool, host, truth, moments>>
    BY <1>2, <1>4 DEF Planes!HistoryGet
  <2>2. CASE Planes!Unreadable(Planes!Raises) \/ Planes!Withhold
    BY <2>1, <2>2, RequestFails
  <2>3. ASSUME NEW broken \in SUBSET (1 .. truth), Planes!Done(Planes!Samples(truth, broken)),
               failed' = (\E i \in broken : i <= Limit)
        PROVE  PlaneInv'
    <3> DEFINE lost == \E i \in broken : i <= Limit
    <3>1. truth \in Nat /\ truth \in moments
      BY <1>1, <2>1, Numbers DEF PlaneTyped, Planes!Truths
    <3>2. lost => truth > 0
      BY <3>1
    <3>3. at' = "done" /\ answer' = IF truth > 0 /\ lost THEN Planes!Withheld ELSE Planes!Cut(truth)
      BY <2>3 DEF Planes!Done, Planes!Samples
    <3>4. failed' = lost /\ lost \in BOOLEAN
      BY <2>3
    <3> HIDE DEF lost
    <3>5. CASE lost = TRUE
      <4>1. failed' = TRUE /\ answer'.kind = "withheld"
        BY <3>2, <3>3, <3>4, <3>5 DEF Planes!Withheld
      <4>2. QED
        BY <2>1, <3>3, <4>1, NothingSaid DEF PlaneInv, PlaneTyped, PlaneCourse,
           Planes!FailureNeverAnswers
    <3>6. CASE lost = FALSE
      <4>1. failed' = FALSE /\ answer' = Planes!Cut(truth)
        BY <3>3, <3>4, <3>6
      <4>2. Earned'
        BY <2>1, <3>1, <4>1, ListCut
      <4>3. QED
        BY <2>1, <3>3, <4>1, <4>2 DEF PlaneInv, PlaneTyped, PlaneCourse,
           Planes!FailureNeverAnswers
    <3>7. QED
      BY <3>4, <3>5, <3>6
  <2>4. QED
    BY <1>4, <2>2, <2>3 DEF Planes!HistoryGet
<1>5. CASE Planes!AlarmsGet
  <2>1. tool = "alarms" /\ at = "get" /\ UNCHANGED <<tool, argument, host, truth, moments>>
    BY <1>2, <1>5 DEF Planes!AlarmsGet
  <2>2. CASE Planes!Unreadable(Planes!Raises)
    BY <2>1, <2>2, RequestFails
  <2>3. CASE host = "own" /\ Planes!Readable(Planes!Alarms(Planes!Page(truth)))
    <3>1. answer' = Planes!Alarms(Planes!Page(truth))
      BY <2>3 DEF Planes!Readable, Planes!Done
    <3>2. truth \in Planes!SeqOf({"state", "config"}, MaxRecords) /\ truth \in moments
      BY <1>1, <2>1 DEF PlaneTyped, Planes!Truths, Planes!BoundedSeq
    <3>3. PICK n \in 0 .. MaxRecords : truth \in [1 .. n -> {"state", "config"}]
      BY <3>2 DEF Planes!SeqOf
    <3>4. truth \in Seq({"state", "config"})
      BY <3>3, Numbers
    <3>5. Earned'
      BY <2>1, <3>1, <3>2, <3>4, AlarmsCut
    <3>6. QED
      BY <2>1, <2>3, <3>5, RequestAnswered
  <2>4. CASE host = "foreign" /\ Planes!Readable(Planes!Alarms(<<>>))
    <3>1. answer'.kind = "list" /\ host' # "own"
      BY <2>1, <2>4 DEF Planes!Readable, Planes!Done, Planes!Alarms, Planes!Listing
    <3>2. Earned'
      BY <3>1 DEF Earned, Planes!NegativeEarned, Planes!PositiveEarned, Planes!Said,
         Planes!ListHonest
    <3>3. QED
      BY <2>1, <2>4, <3>2, RequestAnswered
  <2>5. QED
    BY <1>5, <2>2, <2>3, <2>4 DEF Planes!AlarmsGet
<1>6. CASE Planes!VocabularyGet
  <2>1. tool = "vocabulary" /\ at = "get" /\ UNCHANGED <<tool, host, truth, moments>>
    BY <1>2, <1>6 DEF Planes!VocabularyGet
  <2>2. CASE Planes!Unreadable(Planes!Raises)
    BY <2>1, <2>2, RequestFails
  <2>3. CASE /\ listed' = IF host = "own" THEN truth.props \intersect Planes!SafeProperties ELSE {}
             /\ at' = "tags"
             /\ UNCHANGED <<failed, answer>>
    <3>1. truth \in moments
      BY <1>1 DEF PlaneTyped
    <3>2. PlaneCourse'
      BY <2>1, <2>3, <3>1 DEF PlaneCourse
    <3>3. answer'.kind = "none" /\ failed' = FALSE /\ answer' = answer
      BY <1>1, <2>1, <2>3 DEF PlaneTyped, Planes!NoAnswer
    <3>4. QED
      BY <1>1, <2>1, <2>3, <3>2, <3>3, NothingSaid DEF PlaneInv, PlaneTyped,
         Planes!FailureNeverAnswers
  <2>4. QED
    BY <1>6, <2>2, <2>3 DEF Planes!VocabularyGet
<1>7. CASE Planes!TagsGet
  <2>1. tool = "vocabulary" /\ at = "tags" /\ UNCHANGED <<tool, host, truth, moments>>
    BY <1>2, <1>7 DEF Planes!TagsGet
  <2>2. CASE Planes!Unreadable(Planes!Raises)
    BY <2>1, <2>2, RequestFails
  <2>3. ASSUME NEW tags, tags = IF host = "own" THEN truth.tags ELSE {},
               Planes!Readable([kind |-> "vocabulary", props |-> listed, tags |-> tags])
        PROVE  PlaneInv'
    <3>1. answer'.kind = "vocabulary" /\ answer'.props = listed /\ answer'.tags = tags
      BY <2>3 DEF Planes!Readable, Planes!Done
    <3>2. host = "own" => /\ \E t \in moments : listed = t.props \intersect Planes!SafeProperties
                          /\ \E t \in moments : tags = t.tags
      BY <1>1, <2>1, <2>3 DEF PlaneTyped, PlaneCourse
    <3>3. Earned'
      BY <2>1, <3>1, <3>2 DEF Earned, Planes!NegativeEarned, Planes!PositiveEarned,
         Planes!Said, Planes!ListHonest
    <3>4. QED
      BY <2>1, <2>3, <3>3, RequestAnswered
  <2>4. QED
    BY <1>7, <2>2, <2>3 DEF Planes!TagsGet
<1>8. QED
  BY <1>3, <1>4, <1>5, <1>6, <1>7

LEMMA PlaneKept ==
  ASSUME PlaneInv, Planes!Drift \/ Planes!Steps
  PROVE  PlaneInv'
<1>1. PlaneTyped /\ PlaneCourse
  BY DEF PlaneInv
<1>2. CASE Planes!Drift
  <2>1. /\ truth' \in Planes!Truths(tool) /\ moments' = moments \union {truth'}
        /\ truth' # truth /\ at # "done"
        /\ UNCHANGED <<tool, host, at, listed, failed, answer>>
    BY <1>2 DEF Planes!Drift, Planes!callVars
  <2>2. moments' # {"configured"}
    BY <1>1, <2>1 DEF PlaneTyped
  <2>3. PlaneTyped' /\ PlaneCourse'
    BY <1>1, <2>1, <2>2 DEF PlaneTyped, PlaneCourse
  <2>4. answer'.kind = "none" /\ failed' = FALSE
    BY <1>1, <2>1 DEF PlaneTyped, Planes!NoAnswer
  <2>5. QED
    BY <2>3, <2>4, NothingSaid DEF PlaneInv, Planes!FailureNeverAnswers
<1>3. CASE Planes!Start
  <2>1. /\ at = "start" /\ at' \in {"head", "get", "done"}
        /\ UNCHANGED <<tool, host, truth, moments, failed>>
        /\ at' # "done" => answer' = answer
        /\ answer'.kind \in {"none", "error", "disabled", "withheld"}
    BY <1>1, <1>3 DEF Planes!Start, Planes!callVars, Planes!Done, Planes!Error, Planes!Withheld,
       PlaneTyped, Planes!NoAnswer
  <2>2. PlaneTyped' /\ PlaneCourse'
    BY <1>1, <2>1 DEF PlaneTyped, PlaneCourse
  <2>3. QED
    BY <1>1, <2>1, <2>2, NothingSaid DEF PlaneInv, PlaneTyped, Planes!FailureNeverAnswers
<1>4. QED
  BY <1>2, <1>3, VerdictsKept, ListsKept DEF Planes!Steps

LEMMA PlaneInvariant == FairSpec => []PlaneInv
<1>1. Init => PlaneInv
  BY PlaneStarts DEF Init
<1>2. PlaneInv /\ [Next]_vars => PlaneInv'
  <2>1. ASSUME PlaneInv, UNCHANGED planeVars
        PROVE  PlaneInv'
    <3>1. UNCHANGED <<tool, argument, host, truth, moments, at, listed, failed, answer>>
      BY <2>1 DEF planeVars
    <3>2. PlaneTyped' /\ PlaneCourse' /\ Planes!FailureNeverAnswers'
      BY <2>1, <3>1 DEF PlaneInv, PlaneTyped, PlaneCourse, Planes!FailureNeverAnswers
    <3>3. Earned'
      BY <2>1, <3>1 DEF PlaneInv, Earned, Planes!NegativeEarned, Planes!PositiveEarned,
         Planes!Said, Planes!ListHonest, Planes!Held
    <3>4. QED
      BY <3>2, <3>3 DEF PlaneInv
  <2>2. QED
    BY <2>1, PlaneKept, OneAtATime
<1>3. QED
  BY <1>1, <1>2, PTL DEF FairSpec

(* A yes or a no of a plane is its own, not that of a server that happens  *)
(* to be at its URL, and was true at a moment of the call, however the     *)
(* plane changed; an entry is called missing and a default level the       *)
(* default only if they are (services/checkers.py, checkers_olog.py).      *)
THEOREM VerdictsAreEarned == FairSpec => []VerdictsEarned
<1>1. BookInv /\ PlaneInv => VerdictsEarned
  BY DEF BookInv, PlaneInv, Earned, VerdictsEarned
<1>2. QED
  BY <1>1, BookInvariant, PlaneInvariant, PTL
-----------------------------------------------------------------------------
(* A window, which is read once.                                           *)
WindowTyped ==
  /\ plane \in Windows!Planes /\ from \in Windows!Values /\ to \in Windows!Values
  /\ plane # "olog" => from.form # "unset" /\ to.form # "unset"

WindowInv ==
  /\ WindowTyped
  /\ window = Windows!Unread \/ (Windows!WindowMeans /\ Windows!SwapNamed)

LEMMA ValueTyped ==
  ASSUME NEW v \in Windows!Values
  PROVE  /\ v.t \in Nat
         /\ v.form \in {"zoned", "naive", "amount", "now", "unset"} \union Windows!Traps
<1>1. CASE v \in [form : Windows!Absolute, t : Times]
  BY <1>1, ReadsAssumption DEF Windows!Absolute
<1>2. CASE v \in [form : {"amount"}, t : Amounts]
  BY <1>2, ReadsAssumption
<1>3. CASE v \in [form : {"now", "unset"} \union Windows!Traps, t : {0}]
  BY <1>3
<1>4. QED
  BY <1>1, <1>2, <1>3 DEF Windows!Values

(* A server reads what is sent for a value as the caller means it, but for *)
(* the half millisecond that the wire drops.                               *)
LEMMA WireMeans ==
  ASSUME plane \in Windows!Planes, NEW v \in Windows!Values, Windows!Accepted(v),
         NEW tz \in BOOLEAN, plane = "olog" /\ Windows!AsUTC(v) => tz
  PROVE  /\ v.form \notin Windows!Traps
         /\ Windows!Instant(Windows!Wire(v), tz) \in Windows!Meant(v) - 1 .. Windows!Meant(v)
         /\ plane = "archiver" => Windows!Wire(v).form = "iso"
<1> USE DEF Windows!Absolute, Windows!Relative, Windows!AsUTC, Windows!Readable,
            Windows!Accepted, Windows!Planes
<1>1. v.t \in Nat /\ v.form \notin Windows!Traps
  BY ValueTyped DEF Windows!Traps
<1>2. CASE Windows!AsUTC(v)
  <2>1. Windows!Meant(v) = v.t /\ 2 * (v.t \div 2) \in v.t - 1 .. v.t
    BY <1>1, <1>2 DEF Windows!Meant
  <2>2. CASE plane = "olog"
    <3>1. Windows!Wire(v) = [form |-> "wall", t |-> v.t \div 2]
      BY <1>2, <2>2 DEF Windows!Wire
    <3>2. tz = TRUE
      BY <1>2, <2>2
    <3>3. Windows!Instant(Windows!Wire(v), tz) = 2 * (v.t \div 2) + 0
      BY <2>2, <3>1, <3>2 DEF Windows!Instant
    <3>4. QED
      BY <1>1, <2>1, <2>2, <3>3
  <2>3. CASE plane # "olog"
    <3>1. Windows!Wire(v) = [form |-> "iso", t |-> v.t \div 2]
      BY <1>2, <2>3 DEF Windows!Wire
    <3>2. Windows!Instant(Windows!Wire(v), tz) = 2 * (v.t \div 2)
      BY <2>3, <3>1 DEF Windows!Instant
    <3>3. QED
      BY <1>1, <2>1, <3>1, <3>2
  <2>4. QED
    BY <2>2, <2>3
<1>3. CASE ~Windows!AsUTC(v)
  <2>1. v.form \in {"amount", "now"} /\ plane # "archiver"
    BY <1>3
  <2>2. Windows!Wire(v) = [form |-> v.form, t |-> v.t]
    BY <1>3 DEF Windows!Wire
  <2>3. Windows!Instant(Windows!Wire(v), tz) = Windows!Meant(v)
    <3>1. CASE v.form = "amount"
      BY <2>1, <2>2, <3>1 DEF Windows!Instant, Windows!Meant
    <3>2. CASE v.form = "now"
      BY <2>1, <2>2, <3>2 DEF Windows!Instant, Windows!Meant
    <3>3. QED
      BY <2>1, <3>1, <3>2
  <2>4. Windows!Meant(v) \in Int
    BY <1>1, <2>1, Numbers DEF Windows!Meant
  <2>5. QED
    BY <1>1, <2>1, <2>3, <2>4
<1>4. QED
  BY <1>2, <1>3

LEMMA WindowSent ==
  ASSUME WindowTyped, Windows!Send
  PROVE  (Windows!WindowMeans /\ Windows!SwapNamed)'
<1> DEFINE tz == plane = "olog" /\ (Windows!AsUTC(from) \/ Windows!AsUTC(to))
<1>1. tz \in BOOLEAN /\ (tz <=> plane = "olog" /\ (Windows!AsUTC(from) \/ Windows!AsUTC(to)))
  OBVIOUS
<1>2. /\ window' = [kind |-> "sent", from |-> Windows!Wire(from), to |-> Windows!Wire(to), tz |-> tz]
      /\ UNCHANGED <<plane, from, to>>
      /\ \A v \in {from, to} : v.form = "unset" \/ Windows!Accepted(v)
      /\ ~Windows!Swapped(from, to)
  BY DEF Windows!Send
<1> HIDE DEF tz
<1>3. /\ window'.kind = "sent" /\ window'.from = Windows!Wire(from)
      /\ window'.to = Windows!Wire(to) /\ window'.tz = tz
  BY <1>2
<1>4. plane' \in Windows!Planes /\ from' \in Windows!Values /\ to' \in Windows!Values
  BY <1>2 DEF WindowTyped
<1>5. ASSUME NEW w, NEW zoned
      PROVE  Windows!Instant(w, zoned)' = Windows!Instant(w, zoned)
  BY <1>2 DEF Windows!Instant
<1>6. ASSUME NEW v \in {from, to}, v.form # "unset"
      PROVE  /\ v.form \notin Windows!Traps
             /\ Windows!Instant(Windows!Wire(v), tz) \in Windows!Meant(v) - 1 .. Windows!Meant(v)
             /\ plane = "archiver" => Windows!Wire(v).form = "iso"
  BY <1>1, <1>2, <1>6, WireMeans DEF WindowTyped
<1>7. Windows!WindowMeans'
  <2>1. ASSUME NEW e \in {<<from', window'.from>>, <<to', window'.to>>}, e[1].form # "unset"
        PROVE  /\ e[1].form \notin Windows!Traps
               /\ Windows!Instant(e[2], tz) \in Windows!Meant(e[1]) - 1 .. Windows!Meant(e[1])
    <3>1. PICK v \in {from, to} : e = <<v, Windows!Wire(v)>>
      BY <1>2, <1>3, <2>1
    <3>2. e[1] = v /\ e[2] = Windows!Wire(v)
      BY <3>1
    <3>3. QED
      BY <1>6, <2>1, <3>2
  <2>2. ASSUME NEW e \in {<<from', window'.from>>, <<to', window'.to>>}, e[1].form # "unset"
        PROVE  /\ e[1].form \notin Windows!Traps
               /\ Windows!Instant(e[2], window.tz)' \in Windows!Meant(e[1]) - 1 .. Windows!Meant(e[1])
    <3>1. Windows!Instant(e[2], window.tz)' = Windows!Instant(e[2], tz)
      BY <1>2, <1>3 DEF Windows!Instant
    <3>2. QED
      BY <2>1, <2>2, <3>1
  <2>3. plane' = "archiver" => window'.from.form = "iso" /\ window'.to.form = "iso"
    BY <1>2, <1>3, <1>6 DEF WindowTyped
  <2>4. QED
    BY <2>2, <2>3 DEF Windows!WindowMeans
<1>8. Windows!SwapNamed'
  <2>1. ASSUME plane = "olog", Windows!AsUTC(from), Windows!AsUTC(to)
        PROVE  Windows!Instant(window.from, window.tz)' <= Windows!Instant(window.to, window.tz)'
    <3>1. from.t \in Nat /\ to.t \in Nat /\ tz = TRUE
      BY <1>1, <2>1, ValueTyped DEF WindowTyped
    <3>2. /\ Windows!Wire(from) = [form |-> "wall", t |-> from.t \div 2]
          /\ Windows!Wire(to) = [form |-> "wall", t |-> to.t \div 2]
      BY <2>1 DEF Windows!Wire
    <3>3. from.t \div 2 <= to.t \div 2
      BY <1>2, <2>1, <3>1, <3>2 DEF Windows!Swapped
    <3>4. window'.from = Windows!Wire(from) /\ window'.to = Windows!Wire(to) /\ window'.tz = TRUE
      BY <1>3, <3>1
    <3>5. /\ Windows!Instant(window.from, window.tz)' = 2 * (from.t \div 2) + 0
          /\ Windows!Instant(window.to, window.tz)' = 2 * (to.t \div 2) + 0
      BY <1>2, <2>1, <3>2, <3>4 DEF Windows!Instant
    <3>6. QED
      BY <3>1, <3>3, <3>5
  <2>2. QED
    BY <1>2, <1>3, <2>1 DEF Windows!SwapNamed, Windows!AsUTC
<1>9. QED
  BY <1>7, <1>8

LEMMA WindowRefused ==
  ASSUME WindowTyped, Windows!Refuse
  PROVE  (Windows!WindowMeans /\ Windows!SwapNamed)'
<1>1. window'.kind = "refused" /\ UNCHANGED <<plane, from, to>>
  BY DEF Windows!Refuse, Windows!Refused
<1>2. ASSUME plane = "olog", Windows!AsUTC(from), Windows!AsUTC(to)
      PROVE  Windows!Meant(from) > Windows!Meant(to)
  <2>1. from.t \in Nat /\ to.t \in Nat
    BY ValueTyped DEF WindowTyped
  <2>2. Windows!Accepted(from) /\ Windows!Accepted(to)
    BY <1>2 DEF Windows!Accepted, Windows!Readable, Windows!AsUTC
  <2>3. Windows!Swapped(from, to)
    BY <2>2 DEF Windows!Refuse
  <2>4. from.t \div 2 > to.t \div 2
    BY <1>2, <2>3 DEF Windows!Swapped, Windows!Wire
  <2>5. from.t > to.t
    BY <2>1, <2>4
  <2>6. QED
    BY <1>2, <2>5 DEF Windows!Meant, Windows!AsUTC, Windows!Absolute
<1>3. QED
  BY <1>1, <1>2 DEF Windows!WindowMeans, Windows!SwapNamed, Windows!AsUTC

LEMMA WindowInvariant == FairSpec => []WindowInv
<1>1. Init => WindowInv
  BY DEF Init, Windows!Init, WindowInv, WindowTyped, Windows!Given
<1>2. WindowInv /\ [Next]_vars => WindowInv'
  <2>1. ASSUME WindowInv, UNCHANGED windowVars
        PROVE  WindowInv'
    BY <2>1 DEF windowVars, WindowInv, WindowTyped, Windows!WindowMeans, Windows!SwapNamed,
       Windows!Instant
  <2>2. ASSUME WindowInv, Windows!Next
        PROVE  WindowInv'
    <3>1. WindowTyped'
      BY <2>2 DEF WindowInv, WindowTyped, Windows!Next, Windows!Send, Windows!Refuse
    <3>2. QED
      BY <2>2, <3>1, WindowSent, WindowRefused DEF WindowInv, Windows!Next
  <2>3. QED
    BY <2>1, <2>2, OneAtATime
<1>3. QED
  BY <1>1, <1>2, PTL DEF FairSpec
-----------------------------------------------------------------------------
(* The filters of a query that is accepted.                                *)
Sound(q) ==
  /\ \A e \in q.has \union q.differs : /\ Channels!Clean(e[1]) \in Allowed
                                      /\ Channels!Clean(e[1]) \notin Channels!Reserved
  /\ \A n \in Channels!Range(q.lacks) : /\ Channels!Clean(n) \in Allowed
                                        /\ Channels!Clean(n) \notin Channels!Reserved

LEMMA AcceptedSound ==
  ASSUME NEW q, ~Channels!Rejected(q)
  PROVE  Sound(q) /\ \A e \in q.differs : e[2] # {} /\ ~(Channels!Cardinality(e[2]) > 1)
<1>1. \A e \in q.has \union q.differs : e[1] \in Channels!RawNames(q)
  BY DEF Channels!RawNames
<1>2. \A n \in Channels!Range(q.lacks) : n \in Channels!RawNames(q)
  BY DEF Channels!RawNames
<1>3. \A n \in Channels!RawNames(q) :
        Channels!Clean(n) \in Allowed /\ Channels!Clean(n) \notin Channels!Reserved
  BY DEF Channels!Rejected, Channels!ValidName
<1>4. \A e \in q.differs : e[2] # {} /\ ~(Channels!Cardinality(e[2]) > 1)
  BY DEF Channels!Rejected
<1>5. QED
  BY <1>1, <1>2, <1>3, <1>4 DEF Sound

(* A negated value that is accepted is one value.                          *)
LEMMA NegatedSingle ==
  ASSUME NEW values, IsFiniteSet(values), values # {}, ~(Channels!Cardinality(values) > 1)
  PROVE  \E v : values = {v}
<1>1. Channels!Cardinality(values) = Cardinality(values)
  BY DEF Channels!Cardinality, Cardinality
<1>2. Cardinality(values) \in Nat /\ Cardinality(values) # 0
  BY FS_CardinalityType, FS_EmptySet
<1>3. PICK v : v \in values
  OBVIOUS
<1>4. IsFiniteSet(values \ {v}) /\ Cardinality(values \ {v}) = Cardinality(values) - 1
  BY <1>3, FS_RemoveElement
<1>5. Cardinality(values \ {v}) = 0
  BY <1>1, <1>2, <1>4
<1>6. values \ {v} = {}
  BY <1>4, <1>5, FS_EmptySet
<1>7. QED
  BY <1>3, <1>6

(* What ChannelFinder makes of each of the parameters.                     *)
LEMMA ParamRead ==
  ASSUME NEW ch, NEW key, NEW value, key \notin Channels!Reserved
  PROVE  /\ Channels!Holds(<<key, FALSE, value>>, ch)
              <=> /\ ch.prop[key] # Channels!Absent
                  /\ Channels!Star \in value \/ ch.prop[key] \in value
         /\ Channels!Holds(<<key, TRUE, {Channels!Star}>>, ch) <=> ch.prop[key] = Channels!Absent
<1>1. key # "~tag" /\ key \notin Channels!Reserved \ {"~tag"}
  BY DEF Channels!Reserved
<1>2. Channels!Holds(<<key, FALSE, value>>, ch)
        <=> /\ ch.prop[key] # Channels!Absent
            /\ Channels!Star \in value \/ ch.prop[key] \in value
  BY <1>1 DEF Channels!Holds
<1>3. Channels!Holds(<<key, TRUE, {Channels!Star}>>, ch) <=> ch.prop[key] = Channels!Absent
  BY <1>1 DEF Channels!Holds
<1>4. QED
  BY <1>2, <1>3

LEMMA TagsRead ==
  ASSUME NEW ch, NEW value
  PROVE  /\ Channels!Holds(<<"~tag", FALSE, value>>, ch) <=> ch.tags \intersect value # {}
         /\ Channels!Holds(<<"~tag", TRUE, value>>, ch) <=> ch.tags \intersect value = {}
BY DEF Channels!Holds, Channels!Reserved

(* A query that is accepted selects the channels its arguments mean.       *)
LEMMA QueryRead ==
  ASSUME NEW q \in Queries, ~Channels!Rejected(q)
  PROVE  Channels!Matching(Channels!Params(q)) = Channels!Selected(q)
<1>1. Sound(q) /\ \A e \in q.differs : \E v : e[2] = {v}
  BY AcceptedSound, NegatedSingle, ReadsAssumption
<1> DEFINE H(k, n, v, ch) == Channels!Holds(<<k, n, v>>, ch)
<1>2. ASSUME NEW ch
      PROVE  (\A p \in Channels!Params(q) : Channels!Holds(p, ch))
               <=> /\ Channels!Others(q, ch)
                   /\ \A e \in q.differs :
                        Channels!Understood(ch.prop[Channels!Clean(e[1])], e[2])
  <2>1. (\A p \in Channels!Params(q) : Channels!Holds(p, ch))
          <=> /\ \A e \in q.has : H(Channels!Clean(e[1]), FALSE, e[2], ch)
              /\ \A n \in Channels!Range(q.lacks) :
                   H(Channels!Clean(n), TRUE, {Channels!Star}, ch)
              /\ \A e \in q.differs : H(Channels!Clean(e[1]), TRUE, e[2], ch)
              /\ q.hasTags # {} => H("~tag", FALSE, q.hasTags, ch)
              /\ q.lacksTags # {} => H("~tag", TRUE, q.lacksTags, ch)
    BY DEF Channels!Params
  <2> HIDE DEF H
  <2>2. \A e \in q.has : H(Channels!Clean(e[1]), FALSE, e[2], ch)
          <=> LET v == ch.prop[Channels!Clean(e[1])]
              IN v # Channels!Absent /\ (Channels!Star \in e[2] \/ v \in e[2])
    BY <1>1, ParamRead DEF Sound, H
  <2>3. \A n \in Channels!Range(q.lacks) :
          H(Channels!Clean(n), TRUE, {Channels!Star}, ch)
            <=> ch.prop[Channels!Clean(n)] = Channels!Absent
    BY <1>1, ParamRead DEF Sound, H
  <2>4. ASSUME NEW e \in q.differs
        PROVE  H(Channels!Clean(e[1]), TRUE, e[2], ch)
                 <=> Channels!Understood(ch.prop[Channels!Clean(e[1])], e[2])
    <3>1. PICK v : e[2] = {v}
      BY <1>1, <2>4
    <3>2. Channels!Clean(e[1]) \notin Channels!Reserved
      BY <1>1, <2>4 DEF Sound
    <3> DEFINE key == Channels!Clean(e[1])
    <3>3. key \notin Channels!Reserved
      BY <3>2
    <3> HIDE DEF key
    <3>4. CASE v = Channels!Star
      <4>1. Channels!Holds(<<key, TRUE, {Channels!Star}>>, ch) <=> ch.prop[key] = Channels!Absent
        BY <3>3, ParamRead
      <4>2. Channels!Understood(ch.prop[key], {Channels!Star}) <=> ch.prop[key] = Channels!Absent
        BY DEF Channels!Understood
      <4>3. QED
        BY <3>1, <3>4, <4>1, <4>2 DEF H, key
    <3>5. CASE v # Channels!Star
      <4>1. Channels!Star \notin {v} /\ {v} # {Channels!Star}
        BY <3>5
      <4>2. Channels!Holds(<<key, TRUE, {v}>>, ch)
              <=> ch.prop[key] # Channels!Absent /\ ch.prop[key] # v
        BY <3>3, <4>1 DEF Channels!Holds, Channels!Reserved
      <4>3. Channels!Understood(ch.prop[key], {v})
              <=> ch.prop[key] # Channels!Absent /\ ch.prop[key] # v
        BY <4>1 DEF Channels!Understood, Channels!HasAnother
      <4>4. QED
        BY <3>1, <4>2, <4>3 DEF H, key
    <3>6. QED
      BY <3>4, <3>5
  <2>5. /\ H("~tag", FALSE, q.hasTags, ch) <=> ch.tags \intersect q.hasTags # {}
        /\ H("~tag", TRUE, q.lacksTags, ch) <=> ch.tags \intersect q.lacksTags = {}
    BY TagsRead DEF H
  <2>6. QED
    BY <2>1, <2>2, <2>3, <2>4, <2>5 DEF Channels!Others
<1>3. QED
  BY <1>2 DEF Channels!Matching, Channels!Selected

(* No parameter tells two channels apart that differ off the allowlist     *)
(* only.                                                                   *)
LEMMA HiddenUnread ==
  ASSUME NEW q, ~Channels!Rejected(q), NEW p \in Channels!Params(q), NEW ch, NEW other,
         \A n \in Allowed : ch.prop[n] = other.prop[n], ch.tags = other.tags
  PROVE  Channels!Holds(p, ch) <=> Channels!Holds(p, other)
<1>1. p[1] \in Allowed \ Channels!Reserved \/ p[1] = "~tag"
  <2>1. /\ \A e \in q.has \union q.differs : Channels!Clean(e[1]) \in Allowed \ Channels!Reserved
        /\ \A n \in Channels!Range(q.lacks) : Channels!Clean(n) \in Allowed \ Channels!Reserved
    BY AcceptedSound DEF Sound
  <2>2. CASE \E e \in q.has : p = <<Channels!Clean(e[1]), FALSE, e[2]>>
    BY <2>1, <2>2
  <2>3. CASE \E e \in q.differs : p = <<Channels!Clean(e[1]), TRUE, e[2]>>
    BY <2>1, <2>3
  <2>4. CASE \E n \in Channels!Range(q.lacks) : p = <<Channels!Clean(n), TRUE, {Channels!Star}>>
    BY <2>1, <2>4
  <2>5. ASSUME NEW t, NEW negated, p = <<"~tag", negated, t>>
        PROVE  p[1] = "~tag"
    BY <2>5
  <2>6. \/ \E e \in q.has : p = <<Channels!Clean(e[1]), FALSE, e[2]>>
        \/ \E n \in Channels!Range(q.lacks) : p = <<Channels!Clean(n), TRUE, {Channels!Star}>>
        \/ \E e \in q.differs : p = <<Channels!Clean(e[1]), TRUE, e[2]>>
        \/ \E t : p = <<"~tag", FALSE, t>>
        \/ \E t : p = <<"~tag", TRUE, t>>
    BY DEF Channels!Params
  <2>7. QED
    BY <2>2, <2>3, <2>4, <2>5, <2>6
<1>2. CASE p[1] = "~tag"
  BY <1>2 DEF Channels!Holds, Channels!Reserved
<1>3. CASE p[1] \in Allowed \ Channels!Reserved
  <2>1. p[1] # "~tag" /\ p[1] \notin Channels!Reserved /\ ch.prop[p[1]] = other.prop[p[1]]
    BY <1>3 DEF Channels!Reserved
  <2>2. QED
    BY <2>1 DEF Channels!Holds
<1>4. QED
  BY <1>1, <1>2, <1>3

(* A prefix of a page of one more than the limit is all there is just when *)
(* it is not called capped.                                                *)
LEMMA PrefixHonest ==
  ASSUME NEW all \in SUBSET Registry, NEW shown \in SUBSET all, NEW kept \in SUBSET shown,
         maxResults \in Nat,
         Channels!Cardinality(shown) = IF Channels!Cardinality(all) < maxResults + 1
                                         THEN Channels!Cardinality(all) ELSE maxResults + 1,
         Channels!Cardinality(kept) = IF Channels!Cardinality(shown) < maxResults
                                        THEN Channels!Cardinality(shown) ELSE maxResults
  PROVE  Channels!Cardinality(shown) > maxResults <=> kept # all
<1>1. \A S : Channels!Cardinality(S) = Cardinality(S)
  BY DEF Channels!Cardinality, Cardinality
<1>2. IsFiniteSet(all) /\ IsFiniteSet(shown) /\ IsFiniteSet(kept)
  BY ReadsAssumption, FS_Subset
<1>3. Cardinality(all) \in Nat /\ Cardinality(shown) \in Nat /\ Cardinality(kept) \in Nat
  BY <1>2, FS_CardinalityType
<1>4. CASE Cardinality(all) < maxResults + 1
  <2>1. Cardinality(shown) = Cardinality(all)
    BY <1>1, <1>4
  <2>2. ~(Cardinality(shown) > maxResults) /\ Cardinality(kept) = Cardinality(shown)
    BY <1>1, <1>3, <1>4, <2>1
  <2>3. shown = all /\ kept = shown
    BY <1>2, <2>1, <2>2, FS_Subset
  <2>4. QED
    BY <1>1, <2>2, <2>3
<1>5. CASE ~(Cardinality(all) < maxResults + 1)
  <2>1. Cardinality(shown) = maxResults + 1
    BY <1>1, <1>5
  <2>2. Cardinality(kept) = maxResults
    BY <1>1, <2>1
  <2>3. Cardinality(kept) # Cardinality(all)
    BY <1>3, <1>5, <2>2
  <2>4. QED
    BY <1>1, <2>1, <2>3
<1>6. QED
  BY <1>4, <1>5

(* A search for channels, whose parameters are those of an accepted query. *)
ChannelTyped == query \in Queries /\ maxResults \in Nat /\ step \in {"build", "ask", "done"}

Sent == params = Channels!Params(query) /\ ~Channels!Rejected(query)

ChannelCourse ==
  /\ step # "done" => result = Channels!NoResult
  /\ params = {} \/ Sent
  /\ step = "ask" => Sent

ChannelInv == ChannelTyped /\ ChannelCourse /\ Channels!QueryMeans /\ Channels!CapHonest

LEMMA ChannelKept ==
  ASSUME ChannelInv, Channels!Next
  PROVE  ChannelInv'
<1>1. ChannelTyped /\ ChannelCourse
  BY DEF ChannelInv
<1>2. ASSUME UNCHANGED <<query, maxResults>>, step' \in {"ask", "done"},
             result'.kind \notin {"channels", "count"}, ChannelCourse'
      PROVE  ChannelInv'
  BY <1>1, <1>2 DEF ChannelInv, ChannelTyped, Channels!QueryMeans, Channels!CapHonest
<1>3. CASE Channels!Disabled \/ Channels!Reject \/ Channels!Unanswered
  <2>1. /\ UNCHANGED <<query, maxResults, params>> /\ step' = "done"
        /\ result'.kind \in {"disabled", "error"}
    BY <1>3 DEF Channels!Disabled, Channels!Reject, Channels!Unanswered, Channels!End,
       Channels!Error
  <2>2. ChannelCourse'
    BY <1>1, <2>1 DEF ChannelCourse, Sent
  <2>3. QED
    BY <1>2, <2>1, <2>2
<1>4. CASE Channels!Build
  <2>1. /\ UNCHANGED <<query, maxResults, result>> /\ step' = "ask"
        /\ params' = Channels!Params(query) /\ ~Channels!Rejected(query)
        /\ result = [kind |-> "none"]
    BY <1>1, <1>4 DEF Channels!Build, ChannelCourse, Channels!NoResult
  <2>2. ChannelCourse' /\ result'.kind = "none"
    BY <2>1 DEF ChannelCourse, Sent, Channels!NoResult
  <2>3. QED
    BY <1>2, <2>1, <2>2
<1>5. ASSUME UNCHANGED <<query, maxResults, params>>, step = "ask", step' = "done"
      PROVE  /\ ChannelTyped' /\ ChannelCourse'
             /\ Channels!Matching(params) = Channels!Selected(query)
  <2>1. Sent /\ query \in Queries
    BY <1>1, <1>5 DEF ChannelCourse, ChannelTyped
  <2>2. ChannelTyped' /\ ChannelCourse'
    BY <1>1, <1>5, <2>1 DEF ChannelTyped, ChannelCourse, Sent
  <2>3. QED
    BY <2>1, <2>2, QueryRead DEF Sent
<1>6. CASE Channels!List
  <2> DEFINE all == Channels!Matching(params)
  <2>1. PICK shown \in SUBSET all :
          /\ Channels!Cardinality(shown) = IF Channels!Cardinality(all) < maxResults + 1
                                             THEN Channels!Cardinality(all) ELSE maxResults + 1
          /\ \E kept \in SUBSET shown :
               /\ Channels!Cardinality(kept) = IF Channels!Cardinality(shown) < maxResults
                                                 THEN Channels!Cardinality(shown) ELSE maxResults
               /\ result' = [kind |-> "channels", channels |-> kept,
                             capped |-> Channels!Capped(Channels!Cardinality(shown))]
    BY <1>6 DEF Channels!List, Channels!Asked, Channels!End
  <2>2. PICK kept \in SUBSET shown :
          /\ Channels!Cardinality(kept) = IF Channels!Cardinality(shown) < maxResults
                                            THEN Channels!Cardinality(shown) ELSE maxResults
          /\ result' = [kind |-> "channels", channels |-> kept,
                        capped |-> Channels!Capped(Channels!Cardinality(shown))]
    BY <2>1
  <2>3. UNCHANGED <<query, maxResults, params>> /\ step = "ask" /\ step' = "done"
    BY <1>6 DEF Channels!List, Channels!End
  <2>4. all \in SUBSET Registry /\ maxResults \in Nat
    BY <1>1 DEF Channels!Matching, ChannelTyped
  <2> DEFINE more == Channels!Cardinality(shown) > maxResults
  <2> HIDE DEF all
  <2>5. more <=> kept # all
    BY <2>1, <2>2, <2>4, PrefixHonest
  <2>6. result' = [kind |-> "channels", channels |-> kept, capped |-> more]
    BY <2>2 DEF Channels!Capped
  <2> HIDE DEF more
  <2>7. result'.kind = "channels" /\ result'.channels = kept /\ result'.capped = more
    BY <2>6
  <2>8. Channels!Matching(params)' = all
    BY <2>3 DEF all, Channels!Matching
  <2>9. Channels!CapHonest'
    BY <2>5, <2>7, <2>8, Zenon DEF Channels!CapHonest
  <2>10. Channels!QueryMeans'
    BY <1>5, <2>2, <2>3, <2>7 DEF Channels!QueryMeans, all
  <2>11. QED
    BY <1>5, <2>3, <2>9, <2>10 DEF ChannelInv
<1>7. CASE Channels!Count
  <2>1. /\ UNCHANGED <<query, maxResults, params>> /\ step = "ask" /\ step' = "done"
        /\ result' = [kind |-> "count", count |-> Channels!Cardinality(Channels!Matching(params))]
    BY <1>7 DEF Channels!Count, Channels!End
  <2>2. /\ result'.kind = "count"
        /\ result'.count = Channels!Cardinality(Channels!Matching(params))
    BY <2>1
  <2>3. QED
    BY <1>5, <2>1, <2>2 DEF ChannelInv, Channels!QueryMeans, Channels!CapHonest
<1>8. QED
  BY <1>3, <1>4, <1>6, <1>7 DEF Channels!Next

LEMMA ChannelInvariant == FairSpec => []ChannelInv
<1>1. Init => ChannelInv
  BY ReadsAssumption DEF Init, Channels!Init, ChannelInv, ChannelTyped, ChannelCourse,
     Channels!QueryMeans, Channels!CapHonest, Channels!NoResult
<1>2. ChannelInv /\ [Next]_vars => ChannelInv'
  <2>1. ASSUME ChannelInv, UNCHANGED channelVars
        PROVE  ChannelInv'
    <3>1. UNCHANGED <<query, maxResults, step, params, result>>
      BY <2>1 DEF channelVars
    <3>2. ChannelTyped' /\ ChannelCourse'
      BY <2>1, <3>1 DEF ChannelInv, ChannelTyped, ChannelCourse, Sent
    <3>3. Channels!QueryMeans' /\ Channels!CapHonest'
      BY <2>1, <3>1 DEF ChannelInv, Channels!QueryMeans, Channels!CapHonest, Channels!Matching
    <3>4. QED
      BY <3>2, <3>3 DEF ChannelInv
  <2>2. QED
    BY <2>1, ChannelKept, OneAtATime
<1>3. QED
  BY <1>1, <1>2, PTL DEF FairSpec

(* What is sent to each server selects what the caller meant, or is        *)
(* refused: a window to the millisecond, a channel query over any finite   *)
(* registry, with any allowlist and any arguments (a star among            *)
(* not_property_values for a lack of the property, as in QueryMeans), and  *)
(* a filter of Olog that has a term; no property off the allowlist has an  *)
(* influence (_time_window.py, _build_query_params, search_logbook).       *)
THEOREM FiltersAreMeant == FairSpec => []FiltersMean
<1>1. WindowInv => Windows!WindowMeans /\ Windows!SwapNamed
  BY DEF WindowInv, Windows!Unread, Windows!WindowMeans, Windows!SwapNamed
<1>2. ChannelInv => Channels!QueryMeans /\ Channels!HiddenUnasked
  BY HiddenUnread DEF ChannelInv, ChannelCourse, Sent, Channels!HiddenUnasked
<1>3. BookInv => Logbook!FilterApplied
  <2>1. ASSUME BookInv, stage \notin {"start", "done"}, op = "search"
        PROVE  ~(args.level \subseteq {""}) /\ ~(args.title \subseteq {",", " ", "+"})
    <3>1. args.level # {} /\ args.level # {""} /\ ~Logbook!TitleBlank(args.title)
      BY <2>1 DEF BookInv, BookTyped, Checked
    <3>2. ~(args.level \subseteq {""})
      BY <3>1
    <3>3. ~(args.title \subseteq {",", " ", "+"})
      BY <3>1 DEF Logbook!TitleBlank
    <3>4. QED
      BY <3>2, <3>3
  <2>2. QED
    BY <2>1 DEF Logbook!FilterApplied
<1>4. WindowInv /\ ChannelInv /\ BookInv => FiltersMean
  BY <1>1, <1>2, <1>3 DEF FiltersMean
<1>5. QED
  BY <1>4, WindowInvariant, ChannelInvariant, BookInvariant, PTL

(* A list or a page is complete or called capped, and a request that got   *)
(* no readable answer, at any point of a call, leaves no list and no       *)
(* verdict behind.                                                         *)
THEOREM ListsAreHonest == FairSpec => []ListsHonest
<1>1. ChannelInv /\ PlaneInv /\ BookInv => ListsHonest
  BY DEF ChannelInv, PlaneInv, Earned, BookInv, ListsHonest
<1>2. QED
  BY <1>1, ChannelInvariant, PlaneInvariant, BookInvariant, PTL
=============================================================================
