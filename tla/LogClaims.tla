------------------------------ MODULE LogClaims ------------------------------
(***************************************************************************)
(* Which log records the two logs edges claim: parseEvent of               *)
(* codex/event.go and ParseRecord of cursor/event.go.                      *)
(*                                                                         *)
(* A record is abstracted to what the claims read.  A name is the          *)
(* namespace of an event name: codex.*, a cursor.conversation.* name, any  *)
(* other cursor.* name, a name of someone else, or NoName.                 *)
(***************************************************************************)

NoName == "none"
Names == {"codex", "cursor", "conversation", "foreign", NoName}

\* scope: whether the instrumentation scope is Cursor's; field: the OTLP event
\* name; attr: the attribute event.name; body: the key event.name of a body
\* that is a map, which a body of another type does not have; codexConv: where
\* conversation.id is; cursorConv: whether cursor.conversation.id is an
\* attribute; content: whether cursor.conversation.content_truncated is.
Naming == [scope : {"cursor", "other"}, field : Names, attr : Names,
           body : Names, codexConv : {"attr", "body", "none"},
           cursorConv : BOOLEAN, content : BOOLEAN]

\* The keys of a map body count only if no attribute names the event.
BodyCounts(r) == r.attr = NoName

CodexName(r) == IF BodyCounts(r) THEN r.body ELSE r.attr

HasCodexConversation(r) ==
    \/ r.codexConv = "attr"
    \/ r.codexConv = "body" /\ BodyCounts(r)

CodexClaims(r) == CodexName(r) = "codex" /\ HasCodexConversation(r)

\* wireEventName
CursorName(r) == IF r.field # NoName THEN r.field ELSE r.attr

IsConversationContent(r) == r.content \/ CursorName(r) = "conversation"

\* Mutant of CursorClaims: records with a Codex name are not declined.
CursorClaimsCodexNamed(r) ==
    /\ r.scope = "cursor"
    /\ ~IsConversationContent(r)
    /\ r.cursorConv

CursorClaims(r) ==
    /\ r.scope = "cursor"
    /\ CursorName(r) # "codex"
    /\ ~IsConversationContent(r)
    /\ r.cursorConv

Edges == {"codex", "cursor"}
Claims(e, r) == IF e = "codex" THEN CodexClaims(r) ELSE CursorClaims(r)

\* The two edges read the name of the event in different places: one leaves out
\* the event name field, the other the body.  Here they read the same name.
NamesAgree(r) == CodexName(r) = CursorName(r)
=============================================================================
