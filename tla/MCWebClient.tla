------------------------------ MODULE MCWebClient ------------------------------
(* Small instances of WebClient: two names, two logins. *)
EXTENDS WebClient

Plain == [n \in Names |-> {}]

\* Before the first login the names are interchangeable: try one of them.
FirstName ==
  \A g \in Clients : Unmade = Clients /\ sock'[g] # "none"
    => asked'[g] = CHOOSE n \in Names : TRUE

\* Bounds of the largest run: other users come and go until the last login is
\* made, and the watchdog makes its rounds when nobody has come or gone unseen.
MovesApart ==
  /\ (where' # where /\ account' = account)
       => /\ Unmade # {} /\ warning = None
          /\ \A g \in Clients : srv_status[g] = "ACTIVE"
  /\ (warning = None /\ warning' # None)
       => \A g \in Clients : moved[g] = {} /\ refused[g] = <<>>
=============================================================================
