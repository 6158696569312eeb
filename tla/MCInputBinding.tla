--------------------------- MODULE MCInputBinding ---------------------------
\* One input with its two devices: the two cells share the capture, the
\* dialog and the event queues, and have a file each.
EXTENDS InputBinding
MCInputs == {"surge"}
MCDevices == {"keyboard", "gamepad"}
MCOrder == << <<"surge", "keyboard">>, <<"surge", "gamepad">> >>
MCExternal == {"gamepad"}
=============================================================================
