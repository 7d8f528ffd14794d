CONSTANTS
    None = None
    Lists <- MCLists
    Playlist <- MCPlaylist
    TraktData <- MCTraktData
    TitleSim <- MCTitleSim
    PhoneticSim <- MCPhoneticSim
    Times <- MCTimes
SPECIFICATION Spec
INVARIANTS
    NoChannelTwiceInCategory
