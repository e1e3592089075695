------------------------------- MODULE MCWifi -------------------------------
(* An instance of Startup with two networks and the compiled one; the name  *)
(* of the second is longer than 32 characters and its phrase has 63.        *)
EXTENDS Startup
CONSTANTS home, secret, campus, camp, phrase, factory
Pair(ssid, password) == [k \in Keys |-> IF k = "_ssid" THEN ssid ELSE password]
MCCompiled == Pair(factory, factory)
MCEntries == {Pair(home, secret), Pair(campus, phrase)}
MCCut == [s \in Strings |-> IF s = campus THEN camp ELSE s]
=============================================================================
