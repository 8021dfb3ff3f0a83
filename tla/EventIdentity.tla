---------------------------- MODULE EventIdentity ----------------------------
(***************************************************************************)
(* How a log record becomes an event with a time and an identity           *)
(* (parseEvent and fingerprint of codex/event.go, ParseRecord and eventID  *)
(* of cursor/event.go).  The edges retain an event once per identity.      *)
(***************************************************************************)
EXTENDS LogClaims, Naturals

\* What a record has beside its Naming: ts, written and observed, its three
\* timestamps, 0 for none, where written may be Unreadable; wireId, Cursor's
\* event id or NoName; text, the text of its body or NoName; kind, that of a
\* Cursor event family or NoName; attrs, for all its other attributes.
Unreadable == 99

\* Mutant of CodexTime: an unreadable event.timestamp ends the search.
CodexTimeWritten(r, now) ==
    IF r.ts # 0 THEN r.ts
    ELSE IF r.written = Unreadable THEN now
    ELSE IF r.written # 0 THEN r.written
    ELSE IF r.observed # 0 THEN r.observed
    ELSE now

CodexTime(r, now) ==
    IF r.ts # 0 THEN r.ts
    ELSE IF r.written \notin {0, Unreadable} THEN r.written
    ELSE IF r.observed # 0 THEN r.observed
    ELSE now

CursorTime(r, now) ==
    IF r.ts # 0 THEN r.ts
    ELSE IF r.observed # 0 THEN r.observed
    ELSE now

\* Some timestamp of a record can be read; the wall clock is marked as inferred.
DatedForCodex(r) == r.ts # 0 \/ r.written \notin {0, Unreadable} \/ r.observed # 0
DatedForCursor(r) == r.ts # 0 \/ r.observed # 0

\* The fingerprint is over the name, the time and the attributes, without the
\* content that was stripped before; a text body is not among them.
CodexEvent(r, now) ==
    [name |-> <<"codex">>, ts |-> CodexTime(r, now),
     key |-> <<"codex", CodexTime(r, now), r.written, r.attrs, ~DatedForCodex(r)>>]

\* canonicalEventName
CursorEventName(r) ==
    IF CursorName(r) = NoName THEN <<"body", r.text>>
    ELSE <<"event", CursorName(r), r.kind>>

\* eventID: Cursor's own, or a hash of body, time and attributes.
CursorKey(r, now) ==
    IF r.wireId # NoName THEN <<"wire", r.wireId>>
    ELSE <<"derived", r.text, CursorTime(r, now), r.attrs, ~DatedForCursor(r)>>

CursorEvent(r, now) ==
    [name |-> CursorEventName(r), ts |-> CursorTime(r, now), key |-> CursorKey(r, now)]

EventOf(e, r, now) == IF e = "codex" THEN CodexEvent(r, now) ELSE CursorEvent(r, now)
=============================================================================
