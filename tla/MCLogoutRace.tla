---------------------------- MODULE MCLogoutRace ----------------------------
(* MCLobby with a history of the connections through which players joined    *)
(* the halls they are in.                                                    *)
EXTENDS MCLobby

VARIABLE through   \* history: the halls joined through each connection

RaceInit == Init /\ through = {}

RaceNext ==
  /\ Next
  /\ through' =
       {e \in Conn \X DOMAIN communities' :
          LET p == PidOf[e[1]]
          IN  /\ e[2] \in H!JoinedHalls(p)'
              /\ e \in through \/ (e[2] \notin H!JoinedHalls(p) /\ Request(e[1]))}

RaceSpec == RaceInit /\ [][RaceNext]_<<vars, through>>

\* "Its late cleanup must not clobber the live new connection" (logout): the end
\* of a connection takes its player out of no hall that they joined through
\* another connection, which is the one they have now.
LogoutSparesNewConnection ==
  [][\A c \in Conn, e \in through :
       /\ Logout(c) \/ LogoutFinish(c)
       /\ e[1] # c /\ PidOf[e[1]] = PidOf[c] /\ P!Current(e[1])
       => e[2] \in H!JoinedHalls(PidOf[c])']_<<vars, through>>
=============================================================================
