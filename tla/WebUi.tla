------------------------------- MODULE WebUi -------------------------------
(***************************************************************************)
(* The route handlers of firmware/webui.c.  They run one at a time inside  *)
(* on_recv of http_server.c, edit the board and answer with a body; the    *)
(* two listings are formatted into one static buffer.                      *)
(*                                                                         *)
(* A body is what it shows, a length, and whether all of its text is in    *)
(* the buffer.  An argument is a value or "", an absent body.  What the    *)
(* subscription table answers is left open here: module AudioChannels.     *)
(***************************************************************************)
EXTENDS Integers, Sequences

CONSTANTS
    Arg,             \* request bodies
    ValidTempo,      \* the ones that read as a tempo between 20 and 999
    ChannelId,       \* the ones that begin with a port, a slot and an id
    RespSize,        \* sizeof(s_resp_buf)
    StatusHead, ChannelsHead,       \* text before the first entry
    StatusMargin, ChannelsMargin,   \* the 256 and the 192 of the loops
    StatusEntry, ChannelEntry,      \* bound: an entry without its comma
    TableSize,       \* bound: entries of a table
    PageLen,         \* sizeof(index_html) - 1
    Short            \* "{\"ok\":true}" and the other fixed bodies

ASSUME WebUiAssumption ==
    /\ "" \in Arg /\ ValidTempo \subseteq Arg \ {""}
    /\ ChannelId \subseteq Arg \ {""}
    /\ {RespSize, StatusHead, ChannelsHead, StatusMargin, ChannelsMargin,
        StatusEntry, ChannelEntry, TableSize, PageLen, Short} \subseteq Nat
    /\ StatusHead + 2 < RespSize /\ ChannelsHead + 2 < RespSize
    /\ StatusEntry + 3 <= StatusMargin /\ ChannelEntry + 3 <= ChannelsMargin

VARIABLES
    board,        \* what the handlers edit: tempo, play state, s_peer_name
    s_resp_buf    \* the body that was formatted last

webVars == <<board, s_resp_buf>>

Blank == [tempo |-> "", play |-> FALSE, name |-> ""]

\* A body of n bytes that shows the board b.
Body(what, b, n) == [what |-> what, of |-> b, len |-> n, whole |-> TRUE]

\* The lengths of the entries of a table, 0 for one that is not in use.
Tables(longest) == [1 .. TableSize -> 0 .. longest]

---------------------------------------------------------------------------
(* Formatting *)

\* snprintf of k bytes at the end of the text: it returns k, and leaves out
\* what does not fit before the terminating zero.
Appended(body, k) ==
    [body EXCEPT !.len = @ + k, !.whole = @ /\ body.len + k < RespSize]

\* Slip: the margin is taken for the entry alone.
MoreNoClosing(body, margin) == body.len < RespSize - margin + 2

\* The condition of both loops.
More(body, margin) == body.len < RespSize - margin

\* The loop over a table and the closing brackets.
Listing(start, margin, table) ==
    LET after[i \in 0 .. TableSize] ==
            IF i = 0 THEN start
            ELSE LET b == after[i - 1]
                     comma == IF b.len = start.len THEN 0 ELSE 1
                 IN  IF table[i] = 0 \/ ~More(b, margin) THEN b
                     ELSE Appended(b, comma + table[i])
    IN  Appended(after[TableSize], 2)

ServeStatus(table) ==
    Listing(Body("status", board, StatusHead), StatusMargin, table)
ServeChannels(table) ==
    Listing(Body("channels", Blank, ChannelsHead), ChannelsMargin, table)

---------------------------------------------------------------------------
(* The handlers: the status, the body, and what becomes of the variables *)

Fixed(status, what, n) ==
    [status |-> status, body |-> Body(what, Blank, n),
     board |-> board, buf |-> s_resp_buf]

Formatted(body) ==
    [status |-> "200", body |-> body, board |-> board, buf |-> body]

Edited(b) == [Fixed("200", "ok", Short) EXCEPT !.board = b]
Failed == Fixed("400", "failed", Short)

ServeIndex == Fixed("200", "page", PageLen)

PostTempo(arg) == IF arg \notin ValidTempo THEN Failed
                  ELSE Edited([board EXCEPT !.tempo = arg])

PostPlay(on) == Edited([board EXCEPT !.play = on])

\* Only the name that the status shows: link_audio.c announces one of its own.
PostName(arg) == Edited([board EXCEPT !.name = arg])

\* post_subscribe and post_unsubscribe.
PostSubscription(arg) ==
    {Failed} \cup (IF arg \in ChannelId THEN {Edited(board)} ELSE {})

\* The routes that webui_init registers, and what dispatch answers otherwise.
Replies(path, arg) ==
    CASE path = "/"           -> {ServeIndex}
      [] path = "status"      -> {Formatted(ServeStatus(t)) : t \in Tables(StatusEntry)}
      [] path = "channels"    -> {Formatted(ServeChannels(t)) : t \in Tables(ChannelEntry)}
      [] path = "tempo"       -> {PostTempo(arg)}
      [] path = "play"        -> {PostPlay(TRUE)}
      [] path = "stop"        -> {PostPlay(FALSE)}
      [] path = "name"        -> {PostName(arg)}
      [] path \in {"subscribe", "unsubscribe"} -> PostSubscription(arg)
      [] path = "unknown"     -> {Fixed("404", "not found", Short)}
      [] path = "no line"     -> {Fixed("400", "bad", Short)}

Path == {"/", "status", "channels", "tempo", "play", "stop", "name",
         "subscribe", "unsubscribe", "unknown", "no line"}

WebInit ==
    /\ board = [tempo |-> "default", play |-> FALSE, name |-> "linkfpga"]
    /\ s_resp_buf = Body("empty", Blank, 0)

---------------------------------------------------------------------------
(* Properties *)

\* webui.c:169-191 and 199-213.  Whatever the peer table and the catalog
\* hold, a listing is cut between two entries and closed inside the buffer:
\* body_len never counts text that snprintf left out.
BodyClosed == s_resp_buf.whole /\ s_resp_buf.len < RespSize

=============================================================================
