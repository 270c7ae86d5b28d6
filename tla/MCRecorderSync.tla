---------------------------- MODULE MCRecorderSync ----------------------------
\* RecorderSync for TLC: a server that may have all the rooms.  Two requests of one
\* server meet in the update channel as those of two servers do.
EXTENDS RecorderSync

RoomsOfServers == [s \in Servers |-> Rooms]

===============================================================================
