-------------------------- MODULE MCDamakuController --------------------------
\* DamakuController for TLC: two agents, one of them registered, and a handful
\* of messages.
EXTENDS DamakuController, TLC

CONSTANTS a1, a2, u1, m1, e1

Msg(kind, key, info, agent) ==
    [kind |-> kind, key |-> key, info |-> info, agent |-> agent, fit |-> TRUE]
Unfit(msg) == [msg EXCEPT !.fit = FALSE]
Info(name, face, level) == [UserName |-> name, Face |-> face, Level |-> level]
Same == Info("x", "x", "x")

\* Three metas of one user, the last two telling a field the others do not; a
\* medal; a danmaku seen by both agents and once more by the first; a ranking; and
\* a meta that does not parse.
Bodies ==
    << Msg("userInfoMeta", u1, Info("x", "x", Nil), a1),
       Msg("userInfoMeta", u1, Info("x", Nil, "y"), a2),
       Msg("userInfoMeta", u1, Info("y", Nil, Nil), a1),
       Msg("fansMedal", m1, Same, a1),
       Msg("event", e1, Same, a1),
       Msg("event", e1, Same, a2),
       Msg("event", e1, Same, a1),
       Msg("online", e1, Same, a1),
       Unfit(Msg("userInfoMeta", u1, Same, a1)) >>

===============================================================================
