SPECIFICATION FairSpec
CONSTANTS
    app = app
    Letters <- FewLetters
    Keyboard <- FewKeys
    MaxHeld = 3
    MaxDisturbed = 1
    Os = os
    Apps = {app}
    NoActivatedApp = none
    SingleKey <- Singles
    Shortcuts <- Table
INVARIANTS TypeOK NoModifierStuck AllReleased OneInvoked AppRemembered
PROPERTY EventsEnd
