SPECIFICATION FairSpec
CONSTANTS
  discovered = discovered
  failures = failures
  products = products
  Files = {discovered, failures, products}
  Required = {discovered, products}
  Products = products
  HashOrder <- MCHashOrder
  CopyOrder <- MCCopyOrder
  None = None
  console = console
  cli = cli
  Submitters = {console, cli}
  Operators = {console}
  Versions = {1, 2}
  Invalid = {2}
  MaxEdits = 1
  MaxFaults = 1
INVARIANTS AcceptedMatchesReport LocalReportIsTrue
PROPERTIES AcceptedIsFinal SubmissionIsDecided
