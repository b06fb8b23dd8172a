\* The custom trigger with 4 tickers, and the single HarvestAll ticker.
CONSTANT N = 4
SPECIFICATION FairSpec
INVARIANTS
    NoSendOnClosedTrigger
PROPERTY CloseCompletes
\* An AppHarvest that was closed does nothing more.
CHECK_DEADLOCK FALSE
