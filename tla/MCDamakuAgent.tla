---------------------------- MODULE MCDamakuAgent ----------------------------
\* DamakuAgent for TLC: what its events say of whom.
EXTENDS DamakuAgent

CONSTANTS damaku, gift, rank, u1, m1, x, y

Info(face, level, wealth) == [Face |-> face, Level |-> level, WealthLevel |-> wealth]

\* A message with a face, a gift of the same user with a wealth level and
\* sometimes another face, and a ranking that has the user twice.

OfUser(info) == [chan |-> "user", key |-> u1, info |-> info]
OfMedal(key, info) == [chan |-> "medal", key |-> key, info |-> info]

Kinds == [e \in {damaku, gift, rank} |-> IF e = rank THEN "OnlineRankV2" ELSE "Damaku"]

Said == [e \in {damaku, gift, rank} |->
           IF e = damaku THEN <<OfUser(Info(x, Nil, Nil)), OfMedal(m1, Info(x, x, x))>>
           ELSE IF e = gift THEN <<OfUser(Info(Nil, Nil, y)), OfMedal(NoMedal, Info(Nil, Nil, Nil))>>
           ELSE <<OfUser(Info(y, Nil, Nil)), OfUser(Info(y, Nil, Nil))>>]

===============================================================================
