CONSTANTS
    Root <- MCRoot
    Members <- MCMembers
    Groups <- MCGroups
    Configs <- MCConfigs
    Calls <- MCCalls
SPECIFICATION Spec
INVARIANTS
    MembersAgree
    DefaultPolicyServes
