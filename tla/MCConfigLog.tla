----------------------------- MODULE MCConfigLog -----------------------------
(* ConfigLog for TLC.                                                          *)
EXTENDS ConfigLog

MCNode(name, level, formatter, file, appenders) ==
    [name |-> name, level |-> level, formatter |-> formatter, file |-> file, appenders |-> appenders]

Stdout == [type |-> "StdoutLogAppender", formatter |-> <<>>, file |-> Absent]
File(f) == [type |-> "FileLogAppender", formatter |-> <<>>, file |-> f]
Own == [Stdout EXCEPT !.formatter = <<"x">>]
Unknown == [Stdout EXCEPT !.type = "x"]

One == MCNode(1, "info", <<"%", "m", "x">>, TRUE, <<Own, File("a")>>)
OneLouder == [One EXCEPT !.level = "ERROR"]
OneOther == MCNode(1, "Warn", <<"%", "x">>, TRUE, <<File("b")>>)
Two == MCNode(2, "debug", <<"%", "d">>, FALSE, <<File("a"), Unknown, Stdout>>)
Nameless == MCNode(Unnamed, "debug", <<>>, FALSE, <<File(Absent)>>)
Throws == MCNode(2, "debug", <<>>, TRUE, <<File(Absent)>>)

MCDocuments == {<<One>>, <<OneOther, Two, Nameless, One>>, <<OneLouder, Throws>>}

MCAlphabet == {"%", "d", "{", "}", "m", "x"}
MCFormats == {<<"%", "x">>}
=============================================================================
