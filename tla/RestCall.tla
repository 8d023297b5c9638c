------------------------------- MODULE RestCall --------------------------------
(***************************************************************************)
(* One call of the REST transport (services/_http.py): the read throttle,  *)
(* the attempts of a session, a redirect, the body that is read under a    *)
(* cap, and the two exceptions a caller can tell apart.                    *)
(*                                                                         *)
(* requests and urllib3 are modelled from how build_retrying_session and   *)
(* build_write_session set them up: the adapter of a read session tries a  *)
(* request again after a failed attempt and after a 502, 503 or 504, that  *)
(* of a write session never.  One call at a time: what several share is    *)
(* the throttle (RateWindow) and the connection pool.                      *)
(***************************************************************************)
EXTENDS Integers

CONSTANTS Retries,    \* of a read session
          MaxHops,    \* redirects followed, the bound of requests
          MaxBytes,   \* the cap of rest_get_bytes, in blocks
          Sizes,      \* of the bodies a server sends, in blocks
          Budget      \* what the throttle still admits; no time passes

Kinds == {"json", "bytes", "put"}
None == "none"
Undeclared == -1

VARIABLES
  kind,       \* the function called
  follow,     \* allow_redirects
  phase,      \* "start", "try", "answered", "body" or "done"
  left,       \* attempts the adapter still has for this hop
  hops,       \* redirects followed
  tokens,     \* what is left of the budget of the throttle
  reply,      \* the last thing the network did
  body,       \* of the answer: its true size, the declared one, what was read
  out,        \* the outcome: data, an exception, or None
  sent,       \* ghost: requests that left this process
  applied     \* ghost: how often a server carried the request out

vars == <<kind, follow, phase, left, hops, tokens, reply, body, out, sent, applied>>

NoBody == [size |-> 0, declared |-> Undeclared, held |-> 0]
(* Broken: a write through a read session.                                 *)
RetryingAttempts(k) == Retries + 1

Attempts(k) == IF k = "put" THEN 1 ELSE Retries + 1

(* rest_get_json is called with and without redirects, the other two only  *)
(* without.                                                                *)
Init ==
  /\ kind \in Kinds
  /\ follow \in (IF kind = "json" THEN BOOLEAN ELSE {FALSE})
  /\ phase = "start"
  /\ left = Attempts(kind)
  /\ hops = 0
  /\ tokens \in 0 .. Budget
  /\ reply = None
  /\ body = NoBody
  /\ out = None
  /\ sent = 0
  /\ applied = 0

Finish(outcome) ==
  /\ out' = outcome
  /\ phase' = "done"

(* get_read_throttle().check(): once for a call, outside the try; a write  *)
(* does not pass it.                                                       *)
Throttle ==
  /\ phase = "start"
  /\ \/ /\ kind = "put"
        /\ phase' = "try"
        /\ UNCHANGED <<tokens, out>>
     \/ /\ kind # "put" /\ tokens > 0
        /\ tokens' = tokens - 1
        /\ phase' = "try"
        /\ UNCHANGED out
     \/ /\ kind # "put" /\ tokens = 0
        /\ Finish("limited")
        /\ UNCHANGED tokens
  /\ UNCHANGED <<kind, follow, left, hops, reply, body, sent, applied>>
-----------------------------------------------------------------------------
(* What a server may send back, and whether it did what was asked before.  *)
Answers == {"good", "junk", "status", "busy", "redirect"}
Bodies ==
  {[size |-> n, declared |-> d, held |-> 0] : n \in Sizes, d \in Sizes \union {Undeclared}}

(* No answer, or not all of it: refused, TLS, a timeout, a cut connection. *)
(* The request may have been carried out all the same.                     *)
Lost ==
  /\ phase = "try"
  /\ \E done \in {0, 1} : applied' = applied + done
  /\ sent' = sent + 1
  /\ reply' = "lost"
  /\ left' = left - 1
  /\ phase' = IF left' = 0 THEN "answered" ELSE "try"
  /\ UNCHANGED <<kind, follow, hops, tokens, body, out>>

(* 502, 503, 504: the status_forcelist of a read session.                  *)
Busy ==
  /\ phase = "try"
  /\ sent' = sent + 1
  /\ reply' = "busy"
  /\ left' = left - 1
  /\ phase' = IF left' = 0 THEN "answered" ELSE "try"
  /\ UNCHANGED <<kind, follow, hops, tokens, body, out, applied>>

Answered(a) ==
  /\ phase = "try"
  /\ a \in Answers \ (IF kind = "bytes" THEN {"busy", "junk"} ELSE {"busy"})
  /\ sent' = sent + 1
  /\ reply' = a
  /\ applied' = applied + (IF a \in {"good", "junk"} THEN 1 ELSE 0)
  /\ body' \in (IF a = "good" /\ kind = "bytes" THEN Bodies ELSE {NoBody})
  /\ phase' = "answered"
  /\ UNCHANGED <<kind, follow, left, hops, tokens, out>>

(* The session follows a redirect with a request of its own.               *)
Redirected ==
  /\ phase = "answered" /\ reply = "redirect" /\ follow /\ hops < MaxHops
  /\ hops' = hops + 1
  /\ left' = Attempts(kind)
  /\ phase' = "try"
  /\ UNCHANGED <<kind, follow, tokens, reply, body, out, sent, applied>>

(* What the except clause makes of it: a ConnectionError is conn_exc, any  *)
(* other RequestException resp_exc; a lost answer to a write may also come *)
(* as a read timeout, which is not a ConnectionError.                      *)
Blame(r) ==
  CASE r = "lost" -> IF kind = "put" THEN {"conn", "resp"} ELSE {"conn"}
    [] r \in {"status", "busy", "redirect", "junk"} -> {"resp"}

Failed ==
  /\ phase = "answered" /\ reply # "good"
  /\ ~(reply = "redirect" /\ follow /\ hops < MaxHops)
  /\ \E outcome \in Blame(reply) : Finish(outcome)
  /\ UNCHANGED <<kind, follow, left, hops, tokens, reply, body, sent, applied>>

Parsed ==
  /\ phase = "answered" /\ reply = "good"
  /\ kind # "bytes"
  /\ Finish("data")
  /\ UNCHANGED <<kind, follow, left, hops, tokens, reply, body, sent, applied>>

(* _read_body_capped: the declared length first, and then the stream.      *)
Declared ==
  /\ phase = "answered" /\ reply = "good"
  /\ kind = "bytes"
  /\ IF body.declared > MaxBytes
       THEN Finish("resp")
       ELSE phase' = "body" /\ UNCHANGED out
  /\ UNCHANGED <<kind, follow, left, hops, tokens, reply, body, sent, applied>>

OverCap(total) == total > MaxBytes

ReadBlock ==
  /\ phase = "body" /\ body.held < body.size
  /\ IF OverCap(body.held + 1)
       THEN Finish("resp") /\ UNCHANGED body
       ELSE body' = [body EXCEPT !.held = @ + 1] /\ UNCHANGED <<phase, out>>
  /\ UNCHANGED <<kind, follow, left, hops, tokens, reply, sent, applied>>

BodyCut ==
  /\ phase = "body"
  /\ \E outcome \in {"conn", "resp"} : Finish(outcome)
  /\ UNCHANGED <<kind, follow, left, hops, tokens, reply, body, sent, applied>>

BodyEnds ==
  /\ phase = "body" /\ body.held = body.size
  /\ Finish("data")
  /\ UNCHANGED <<kind, follow, left, hops, tokens, reply, body, sent, applied>>

Next ==
  \/ Throttle
  \/ Lost \/ Busy
  \/ \E a \in Answers : Answered(a)
  \/ Redirected \/ Failed \/ Parsed
  \/ Declared \/ ReadBlock \/ BodyCut \/ BodyEnds

Spec == Init /\ [][Next]_vars
-----------------------------------------------------------------------------
(* A write is carried out at most once, whatever the network does with the *)
(* answers, and it never waits for or uses up the throttle of the reads.   *)
WrittenOnce == kind = "put" => applied <= 1 /\ sent <= 1 /\ out # "limited"

(* An answer that is handed over came from the configured host unless the  *)
(* call allows redirects; bytes never come from another one.               *)
OriginKept == out = "data" => (hops > 0 => follow /\ kind = "json")

(* A read that failed as unreachable got no whole answer to its last       *)
(* attempt, and had none left; a server that answered to the end, if only  *)
(* to say that it is busy, is not reported as one that could not be        *)
(* reached.                                                                *)
OutageNamed ==
  out = "conn" => \/ reply = "lost" /\ left = 0
                  \/ kind = "bytes" /\ reply = "good" /\ body.held <= body.size

(* No more than the cap is ever held of a body, however it was declared,   *)
(* and what is handed over is all of it.                                   *)
BodyCapped ==
  /\ body.held <= MaxBytes
  /\ (out = "data" /\ kind = "bytes") => body.held = body.size

=============================================================================
