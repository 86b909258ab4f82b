SPECIFICATION ModesSpec
CONSTANTS
  MaxChars = 1
  MaxPosts = 2
INVARIANT KeysHaveAReader
INVARIANT EscsLeadHome
INVARIANT NothingIsLeftOpen
