\* Two nodes, up to three terms, one crash and two heartbeat rounds.
CONSTANTS
  Node = {n1, n2}
  None = None
  MaxTerm = 3
  MaxCrashes = 1
  MaxRounds = 2
SPECIFICATION Spec
INVARIANT TypeOK
INVARIANT VoteNotGivenAway
INVARIANT CandidateIsCampaigning
INVARIANT LeaderWasElected
PROPERTY TermsAndVotes
PROPERTY DeposedByPeer
PROPERTY ImplementsLeadership
PROPERTY CampaignYieldsLeader
\* The bounds on terms, rounds and crashes end every behaviour.
CHECK_DEADLOCK FALSE
