\* Three plays, the first of the file named on the command line; start times within
\* and beyond the jitter; one message waiting while another one is reported.
SPECIFICATION FairSpec
CONSTANTS
    Files = {f1}
    NoFile = NoFile
    StartTimes <- JitteryStartTimes
    MaxPlays = 3
    InitialFile = f1
    MaxBacklog = 1
INVARIANTS
    ThreadHasItsService
    EveryStatusIsNews
    NoEffectMeansEnded
    IInv
PROPERTIES
    StatusNeverGoesBack
    ThreadsAsPromised
    SongsAsControlled
    FeedInOrder
    RequestsAreAnswered
    EndIsPublished
    FeedKeepsUp
