---------------------------- MODULE MCLogsRouter ----------------------------
(***************************************************************************)
(* Small instances of LogsRouter: what senders send.                       *)
(***************************************************************************)
EXTENDS LogsRouter, TLC

\* A record without any of what the claims look at.
Blank == [scope |-> "other", field |-> NoName, attr |-> NoName,
          body |-> NoName, codexConv |-> "none", cursorConv |-> FALSE,
          content |-> FALSE, ts |-> 0, written |-> 0, observed |-> 0,
          wireId |-> NoName, text |-> NoName, kind |-> NoName, attrs |-> "a",
          conv |-> "conv"]

\* Codex names its events in an attribute or in a map body.
CodexByBody == [Blank EXCEPT !.body = "codex", !.codexConv = "body"]

\* Cursor names them in the field or, in older clients, by the text of the body.
CursorNamed == [Blank EXCEPT !.scope = "cursor", !.field = "cursor",
                             !.attr = "cursor", !.cursorConv = TRUE]
CursorUnnamed == [Blank EXCEPT !.scope = "cursor", !.cursorConv = TRUE,
                               !.text = "api_request"]

\* Conversation content, by its name and by its mark.
CursorContent == [CursorNamed EXCEPT !.field = "conversation",
                                     !.attr = "conversation", !.text = "secret"]
CursorMarked == [CursorUnnamed EXCEPT !.content = TRUE, !.text = "secret"]

\* Records no client is known to send: a Codex event relayed under the scope
\* of Cursor, with both conversation ids; and the same with a field that names
\* it otherwise than the attribute does.
Relayed == [CursorUnnamed EXCEPT !.attr = "codex", !.codexConv = "attr"]
Contradicting == [Relayed EXCEPT !.field = "cursor"]

\* Records with each timestamp and with none, with and without an event id, two
\* that differ for the Cursor edge in the text of their body only; and more of
\* each edge than a turn has room for.
Wire == {{Relayed, [CodexByBody EXCEPT !.written = Unreadable, !.observed = 12],
          [CursorNamed EXCEPT !.wireId = "id1"], Blank, CursorContent, CursorMarked},
         {[Contradicting EXCEPT !.ts = 12, !.written = 11],
          [CursorUnnamed EXCEPT !.observed = 12, !.text = "tool_result"]}}

CallerSymmetry == Permutations(Callers)
=============================================================================
