\* Every algorithm on every input up to the bounds.
SPECIFICATION Spec
CHECK_DEADLOCK FALSE
CONSTANTS
  Lower <- MCLower
  NumberIn <- MCNumberIn
  Parts <- MCParts
  Unprefixed <- MCUnprefixed
  Items <- MCItems
  Variants <- MCVariants
  Options <- MCOptions
  Reputation <- MCReputation
  Text <- MCText
  KindOf <- MCKindOf
  Window = 6
  MinSamples = 5
  Number = 900
  Proposals <- MCProposals
  Routed <- MCRouted
  DigitKeys <- MCDigitKeys
  LetterKeys <- MCLetterKeys
  Normal <- MCNormal
  Alike <- MCAlike
  Limit = 2
  Clickable <- MCClickable
  Forms <- MCForms
  Answerable <- MCAnswerable
  Tokens <- MCTokens
  Inputs <- MCInputs
  Scorable <- MCScorable
  Rated = {1, 2}
  Rating = {"x", "y"}
  Leasable = {"s1", "s2"}
  Ends = {"submitted", "skipped", "expired"}
  MaxLabels = 4
  MaxVotes = 3
  MaxGolds = 7
  MaxCompared = 2
  MaxClicks = 2
  MaxFlags = 6
  MaxTokens = 5
  MaxInputs = 3
  MaxUnits = 4
  MaxEvents = 5
INVARIANTS SidesTold MergeSound ReputationHonest ConditionRead HotkeysUnambiguous BatchRight KappaTrue EpisodesTrue
