---------------------------- MODULE MCObservers ----------------------------
(* Two observers whose stop() waits for a process, one whose start() does, *)
(* and the one of the browser, with two requests at a time.                 *)
EXTENDS Observers

MCOrder == <<"keyboard", "browser", "mouse", "clipboard">>
MCWaiting == <<"browser", "mouse">>
MCCaller == {"c1", "c2"}
=============================================================================
