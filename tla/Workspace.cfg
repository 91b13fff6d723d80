SPECIFICATION MCSpec
CONSTANTS
    r1 = r1
    r2 = r2
    ann = ann
    bob = bob
    t1 = t1
    t2 = t2
    t3 = t3
    Signers <- MCSigners
    Visitors <- MCRequests
    MaxMints = 2
    NoSigner = NoSigner
    Tasks <- MCTasks
    Editors <- MCRequests
    None = None
    Requests <- MCRequests
    MaxServed = 3
    Stage = "build"
    Gallery <- MCGallery
    NoRoadmap = NoRoadmap
    Weekend = {1}
    StreakMilestones = {1}
    MaxDay = 2
    DocumentTemplateKeys = {"one_pager"}
    Headings = {"Notes", "Terms"}
    ExpiryDays = {0, 30}
    Founders <- MCFounders
    Dates = {1, 2}
    Contents = {"text"}
    Moods = {1, 5}
    Stress = {1}
    Studied <- MCStudied
    LOGIN_MAX_FAILS = 2
    Spellings = {"bo@x", "Bo@x"}
    Required = {"name"}
    Addresses <- MCAddresses
    Mailbox <- MCMailbox
    Times = {0, 1}
    Ids = {1, 2, 3}
    Limits = {1, 2}
SYMMETRY MCSymmetry
INVARIANTS WorkspaceTypeOK GeneratedOnce PagesAgree LinksWorkOnce OldLinksVoid BriefingHasJob PagesCoverFeed CompleteMeansSigned LastLinkCounts OnlyRacesCloseCycles
PROPERTIES EditSetsProgress AppliedAsAnnounced CompletionEarned RevocationSticks FilesKeepObjects MoodFollowsEntry OnboardedReady InvitedOnce
CHECK_DEADLOCK FALSE
