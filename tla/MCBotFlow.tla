----------------------------- MODULE MCBotFlow -----------------------------
(* Values for the checked instances of BotFlow.                            *)
EXTENDS BotFlow

Frame(type, group, author, text, id) ==
  [op |-> 0, type |-> type, group |-> group, author |-> author, text |-> text, id |-> id]

\* Two messages carry one id; a mark may stand for two; one frame is no dispatch.
MCFrames ==
  {Frame("GROUP_AT_MESSAGE_CREATE", "g1", "u1", <<"@bot", "/", "ECHO">>, "m1"),
   Frame("C2C_MESSAGE_CREATE", "none", "none", <<"!", "!", "show">>, "m1"),
   Frame("GROUP_MESSAGE_CREATE", "g1", "u1", <<"@bot", "/", "echo">>, "m2"),
   Frame("C2C_MESSAGE_CREATE", "none", "u1", <<"/">>, "m2"),
   Frame("READY", "none", "none", <<>>, "m2"),
   [Frame("READY", "none", "none", <<>>, "m2") EXCEPT !.op = 7]}

Subscription(platform, kind, protocol) ==
  [platform |-> platform, kind |-> kind, protocol |-> protocol]
MCSubscriptions ==
  <<Subscription("any", "message_created", "parse"), Subscription("none", "none", "event"),
    Subscription("other", "none", "parse")>>
MCPrefixes == <<<<"/">>, <<"!">>, <<"!", "!">>>>
MCAnswers == <<"echo">> :> <<"text", "mention", "image">> @@ <<"!", "show">> :> <<"image", "text", "other">>

\* Sized and hashed, and without one of the two or without a provider.
Resource(hinted, hashed, provider) ==
  [generation |-> 1, hinted |-> hinted, hashed |-> hashed, provider |-> provider]
MCResources ==
  {Resource(TRUE, TRUE, TRUE), Resource(TRUE, FALSE, TRUE), Resource(FALSE, TRUE, TRUE),
   Resource(TRUE, TRUE, FALSE)}
=============================================================================
