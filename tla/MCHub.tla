------------------------------- MODULE MCHub -------------------------------
(* Small instances of Hub for TLC.                                         *)
EXTENDS Hub, TLC

CONSTANTS c1, c2, ann, bob

\* ann has two connections: two tabs, or the chat and the files page.
TwoTabs == (c1 :> ann @@ c2 :> ann)

\* Every connection belongs to a user of its own.
TwoUsers == (c1 :> ann @@ c2 :> bob)

SameUserSymmetry == Permutations({c1, c2})

\* The hub before the first tick of its 10-second ticker: enough to look at
\* messages, edits and file events, none of which the ticker sends.
QuietTickerSpec == Init /\ [][Next /\ pc'["ticker"] = "wait"]_vars

\* Fair behaviours in which c1, once connected, stays, and c2 comes and goes:
\* it goes because its socket goes down while it is read, not because the
\* browser stalls or sends what ReadJSON refuses.  A message or a file event
\* may be posted while the dead c2 waits at Unregister: the manager may take
\* it first and range over a client that nobody reads any more.
OneStays ==
  /\ conn[c1] = "up" => conn'[c1] = "up" /\ life'[c1] # "leaving"
  /\ life[c2] = "reading" /\ life'[c2] = "leaving" => conn[c2] = "down"
  /\ conn[c2] = "up" /\ conn'[c2] = "down" => life[c2] = "reading"
  /\ posted' # posted => /\ posted' \in {<<"chat">>, <<"file">>}
                        /\ life[c2] = "leaving" /\ writer[c2] = "done"
                        /\ sendOnline[c1] = <<>> /\ pc["ticker"] = "wait"

OneStaysSpec == Init /\ [][Next /\ OneStays]_vars /\ Fairness
=============================================================================
