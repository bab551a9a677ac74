----------------------------- MODULE MCStartup ------------------------------
(* An instance of Startup for TLC: a registry with two of the default       *)
(* devices and room for one more, and a table of two entries.               *)
EXTENDS Startup

Dev(name, type) == [name |-> name, type |-> type]
MCDefaults == <<Dev("console_uart", "uart"), Dev("rtc", "sensor")>>
MCExtras == {Dev("rtc", "gpio"), Dev("fan", "gpio"), Dev("scale", "uart")}

Line(type, key, value) == [type |-> type, key |-> key, value |-> value]
Content(lines) == [read |-> "OK", lines |-> lines]
Level(n) == Line("int", "log.level", n)

\* No file, an empty one, one that is too large; a level that does not exist;
\* a key that changes its type; a bad line, a bad key and a line too many.
MCFiles == {[read |-> "UNSUPPORTED", lines |-> <<>>], [read |-> "BUSY", lines |-> <<>>], Content(<<>>),
            Content(<<Level(9)>>),
            Content(<<Level(1), Line("string", "log.level", 0), Line("bool", "b", 1)>>),
            Content(<<Level(5), Level(2), Line("bad", "b", 0), Level(4)>>),
            Content(<<Line("int", "", 1), Level(4)>>),
            Content(<<Line("bool", "b", 0), Level(4), Line("string", "c", 1)>>)}
=============================================================================
