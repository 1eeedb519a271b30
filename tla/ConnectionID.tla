--------------------------- MODULE ConnectionID ---------------------------
(***************************************************************************)
(* The BEP 15 connection IDs of frontend/udp/connection_id.go, as one      *)
(* pooled ConnectionIDGenerator that successive request handlers borrow.   *)
(*                                                                         *)
(* A connection ID is the Unix time in seconds, truncated to a 32-bit      *)
(* big-endian field, followed by the first four bytes of                   *)
(* HMAC(key, field ++ ip).  The generator keeps three buffers between      *)
(* calls: the keyed MAC with the bytes written to it since its last Reset, *)
(* the scratch slice the MAC's Sum is appended to, and connID.  The clock  *)
(* has sub-second resolution (now is in ticks of 1/TicksPerSecond s), the  *)
(* field has TsBits bits (32 in the code; smaller here so that TLC's       *)
(* integers reach the wrap), and the MAC is ideal: its digest is the       *)
(* sequence of what was written, so different inputs give different tags.  *)
(* The 2^-32 chance that a truncated tag collides is not modelled.         *)
(*                                                                         *)
(* The generator is not thread safe; the frontend (not in this repository) *)
(* takes it from a sync.Pool, makes one call and returns it, so each call  *)
(* is one step.  The caller copies the returned connID into its reply      *)
(* before the generator goes back to the pool.                             *)
(***************************************************************************)
EXTENDS Integers, Sequences

CONSTANTS
  IPs,             \* client addresses (model values)
  TsBits,          \* width of the timestamp field (32 in the code)
  TicksPerSecond,  \* clock resolution
  TTL,             \* ttl in seconds (2 minutes in the code)
  Skews,           \* maxClockSkew values, in ticks
  Times            \* clock readings, in ticks

ASSUME TsBits \in Nat \ {0} /\ TicksPerSecond \in Nat \ {0} /\ TTL \in Nat \ {0}
ASSUME Skews \subseteq Nat /\ Times \subseteq Nat

\* The ideal HMAC-SHA256 digest of the bytes written since the last Reset.
Mac(written) == written

\* The zero bytes make() fills a new slice with.
Zero == <<>>

\* NewConnectionIDGenerator: hmac.New, connID of 8 zero bytes, scratch of
\* 32 zero bytes (one zero digest).
NewConnectionIDGenerator ==
  [mac |-> <<>>, scratch |-> <<Zero>>, connID |-> [ts |-> 0, tag |-> Zero]]

\* Mutant: reset forgets g.mac.Reset(), so the MAC keeps earlier input.
ResetKeepMac(g) == [g EXCEPT !.scratch = <<>>]

\* reset: "g.mac.Reset(); g.connID = g.connID[:8]; g.scratch = g.scratch[:0]".
Reset(g) == [g EXCEPT !.mac = <<>>, !.scratch = <<>>]

\* Mutant: the timestamp is rounded up to the next second.
TsFieldRoundedUp(now) == ((now + TicksPerSecond - 1) \div TicksPerSecond) % (2 ^ TsBits)

\* "uint32(now.Unix())": whole seconds, truncated to the field's width.
TsField(now) == (now \div TicksPerSecond) % (2 ^ TsBits)

\* Mutant: maxClockSkew is ignored, a timestamp in the future is rejected.
InWindowNoSkew(ts, now, maxClockSkew) ==
  /\ ~(now > (ts + TTL) * TicksPerSecond)
  /\ ~(ts * TicksPerSecond > now)

\* The negation of Validate's early return "now.After(ts.Add(ttl)) ||
\* ts.After(now.Add(maxClockSkew))", with the field read back as seconds
\* since the epoch.
InWindow(ts, now, maxClockSkew) ==
  /\ ~(now > (ts + TTL) * TicksPerSecond)
  /\ ~(ts * TicksPerSecond > now + maxClockSkew)

\* Two mac.Write calls and "g.scratch = g.mac.Sum(g.scratch)": the digest
\* is appended to what scratch holds.
MacSum(g, field, ip) ==
  LET m == g.mac \o <<field, ip>>
  IN [g EXCEPT !.mac = m, !.scratch = Append(@, Mac(m))]

\* Generate on generator g: the generator afterwards, whose connID is the
\* slice Generate returns.  The tag is scratch[:4], the first digest.
GenerateOn(g, ip, now) ==
  LET f == TsField(now)
      s == MacSum([Reset(g) EXCEPT !.connID.ts = f], f, ip)
  IN [s EXCEPT !.connID.tag = Head(s.scratch)]

\* Validate on generator g: the generator afterwards and the answer.  The
\* early return leaves the generator as it was.
ValidateOn(g, id, ip, now, maxClockSkew) ==
  IF ~InWindow(id.ts, now, maxClockSkew)
  THEN [gen |-> g, ok |-> FALSE]
  ELSE LET s == MacSum(Reset(g), id.ts, ip)
       IN [gen |-> s, ok |-> Head(s.scratch) = id.tag]

----------------------------------------------------------------------------
(* The pooled generator and what its callers got.                         *)

VARIABLES
  gen,     \* the generator's buffers
  issued,  \* the last ID Generate handed out: [ip, time, id], or NoCall
  last     \* the last Validate of that ID: [ip, time, skew, ok], or NoCall

vars == <<gen, issued, last>>

NoCall == [none |-> TRUE]

Init ==
  /\ gen = NewConnectionIDGenerator
  /\ issued = NoCall
  /\ last = NoCall

\* A handler answers a connect request: "g.Generate(addr, now)".
GenerateCall(ip, now) ==
  LET g == GenerateOn(gen, ip, now) IN
  /\ gen' = g
  /\ issued' = [ip |-> ip, time |-> now, id |-> g.connID]
  /\ last' = NoCall

\* A handler checks the connection ID of a later packet:
\* "g.Validate(connID, addr, now, maxClockSkew)".
ValidateCall(ip, now, skew) ==
  LET v == ValidateOn(gen, issued.id, ip, now, skew) IN
  /\ issued # NoCall
  /\ gen' = v.gen
  /\ last' = [ip |-> ip, time |-> now, skew |-> skew, ok |-> v.ok]
  /\ UNCHANGED issued

Next ==
  \E ip \in IPs, now \in Times:
    \/ GenerateCall(ip, now)
    \/ \E skew \in Skews: ValidateCall(ip, now, skew)

Spec == Init /\ [][Next]_vars

----------------------------------------------------------------------------
(* Properties, about the last validation of the last issued ID.            *)

Validated == issued # NoCall /\ last # NoCall

\* A connection ID is accepted from the address it was issued to for at
\* least TTL - 1 s after it was issued (the field drops the fraction of a
\* second), and, when it was issued by an instance whose clock is ahead,
\* as long as that instance is no more than maxClockSkew ahead.
AcceptedWhenFresh ==
  (/\ Validated
   /\ issued.ip = last.ip
   /\ issued.time < 2 ^ TsBits * TicksPerSecond
   /\ issued.time <= last.time + last.skew
   /\ last.time <= issued.time + (TTL - 1) * TicksPerSecond) => last.ok

\* A connection ID is never accepted more than TTL after it was issued, nor
\* from an address it was not issued to.
RejectedWhenExpired ==
  (/\ Validated
   /\ \/ last.time > issued.time + TTL * TicksPerSecond
      \/ issued.ip # last.ip) => ~last.ok

\* The generator "manages its state itself, so it can be taken from and
\* returned to a pool without any cleanup": after any history of calls,
\* Generate hands out the ID and Validate gives the answer that a newly
\* created generator would.
PooledGeneratorNeedsNoCleanup ==
  /\ issued # NoCall =>
       issued.id = GenerateOn(NewConnectionIDGenerator, issued.ip, issued.time).connID
  /\ Validated =>
       last.ok = ValidateOn(NewConnectionIDGenerator, issued.id, last.ip,
                            last.time, last.skew).ok

\* The spec's round trip: Validate(Generate(ip, now), ip, now, 0) holds for
\* every address and every time.
RoundTrip ==
  (/\ Validated
   /\ last.ip = issued.ip /\ last.time = issued.time /\ last.skew = 0) => last.ok
=============================================================================
